---- MODULE Spec2Model ----
(***************************************************************************)
(* kubeminds: the agent loop (internal/agent/engine.go), the task          *)
(* reconciler (internal/controller/diagnosistask_controller.go) and the    *)
(* alert aggregator (internal/alert), the tool router                      *)
(* (internal/tools/router.go).                                             *)
(*                                                                         *)
(* SpecRun    one BaseAgent.Run on behalf of a Running task, the LLM       *)
(*            answering every Chat with any response of the bounded set,   *)
(*            the callback and the final status applied to the task.       *)
(* Spec       one DiagnosisTask, its Reconcile calls and the agent         *)
(*            goroutines they spawn, every store access a step of its own. *)
(* SpecQueue  as Spec, Reconcile called only for a queued key.             *)
(* SpecRunFair    SpecRun with the run scheduled until it returns.         *)
(* SpecQueueGone  SpecQueue with the deleted object leaving the store.     *)
(* SpecAgg    the Aggregator: concurrent Ingest calls and the sweep        *)
(*            goroutine over a millisecond clock, tasks created on flush.  *)
(* SpecRunSkill  SpecRun for an agent built with any of the skills.        *)
(* SpecAggL2     SpecAgg with an L2 event store attached.                  *)
(* SpecAggLive   SpecAgg with the alerts stopping and the sweep scheduled. *)
(* SpecRouter    a Router: providers added, ListTools over them.           *)
(* SpecName      buildTaskName and sanitizeName over alert names.          *)
(* SpecMatch     a SkillManager: skills registered, Match for one task.    *)
(***************************************************************************)
EXTENDS Integers, Sequences, FiniteSets, Bags, TLC

VARIABLES
    run,        \* the BaseAgent of SpecRun and the locals of its Run call
    ctxErr,     \* SpecRun: "" or the error of Run's context once it is done
    cbLog,      \* SpecRun: the onStepComplete calls received, in order
    task,       \* the DiagnosisTask object in the control store
    active,     \* ActiveAgents[task]: 0, or the agent whose cancel handle is stored
    rec,        \* the Reconcile call in progress: its position and its locals
    agents,     \* the agent goroutines spawned so far, by spawn number
    nAgents,    \* how many agent goroutines have been spawned
    dirty,      \* the task's key is in the controller's work queue
    clock,      \* the wall clock, in milliseconds
    groups,     \* Aggregator.groups: GroupKey -> AlertGroup
    ingest,     \* the Ingest calls in progress, by calling goroutine
    nIngests,   \* how many Ingest calls have been made
    sweep,      \* the sweep goroutine: its position and its locals
    tasks,      \* the DiagnosisTasks the aggregator's creator has stored
    flushLog,   \* the log lines of flush and of its outcome, in order
    l2Store,    \* Aggregator.l2Store is set (WithL2Store was called)
    l2Go,       \* the goroutines flush has started for AppendAlertEvent, not yet run:
                \* a bag of their events
    l2Log,      \* the AppendAlertEvent calls made, a bag of events and errors
    router,     \* SpecRouter: the tools.Router and its ListTools call
    naming,     \* SpecName: an alert name and the task name built from it
    skillMgr    \* SpecMatch: the SkillManager's skills, a task's alert context and the
                \* skills Match has returned for it

runVars == <<run, ctxErr, cbLog>>
ctlVars == <<task, active, rec, agents, nAgents, dirty>>
l2Vars == <<l2Store, l2Go, l2Log>>
aggVars == <<clock, groups, ingest, nIngests, sweep, tasks, flushLog, l2Store, l2Go, l2Log>>
libVars == <<router, naming, skillMgr>>
vars == <<run, ctxErr, cbLog, task, active, rec, agents, nAgents, dirty,
          clock, groups, ingest, nIngests, sweep, tasks, flushLog, l2Store, l2Go, l2Log,
          router, naming, skillMgr>>

-----------------------------------------------------------------------------
(* Bounds of the model *)

\* SpecRun: the largest maxSteps given to Run
MaxSteps == 2
\* SpecRun: the most tool calls the LLM requests over one run (all responses together)
MaxCalls == 4
\* Spec: spec.policy.maxSteps of the task
TaskMaxSteps == 1
\* Spec: the most agent goroutines spawned for the task
MaxAgents == 3

-----------------------------------------------------------------------------
(* Program constants *)

SummaryMax == 200
ThoughtMax == 500
LoopWindow == 3

SafetyLevelReadOnly == "ReadOnly"
SafetyLevelLowRisk == "LowRisk"
SafetyLevelHighRisk == "HighRisk"
SafetyLevelForbidden == "Forbidden"

\* The tools the Router lists: name and safety class (tools/pod.go, tools/write.go;
\* no shipped tool is Forbidden, "exec_shell" stands for one that is).
Registry ==
    << [name |-> "get_pod_logs", safety |-> SafetyLevelReadOnly],
       [name |-> "delete_pod", safety |-> SafetyLevelHighRisk],
       [name |-> "exec_shell", safety |-> SafetyLevelForbidden] >>

\* BaseSkill; of its SystemPrompt the first sentence is kept
BaseSkill == [name |-> "base_skill", systemPrompt |-> "You are a Kubernetes Expert Agent.",
              allowedTools |-> <<>>]

\* A domain skill merged with BaseSkill that allows the log tool and a tool no
\* provider offers
LogSkill == [name |-> "log_diagnosis",
             systemPrompt |-> "You are a Kubernetes Expert Agent.\n\nRead the logs first.",
             allowedTools |-> <<"get_pod_logs", "get_metrics">>]

\* The skills a run may be given
Skills == {BaseSkill, LogSkill}

-----------------------------------------------------------------------------
(* Inputs: what the LLM may answer *)

\* (toolName, toolArgs) pairs the LLM requests; "get_metrics" is no registered tool,
\* "{bad}" are arguments on which Execute returns an error.
CallSet ==
    { [name |-> "get_pod_logs", args |-> "{}"],
      [name |-> "get_pod_logs", args |-> "{bad}"],
      [name |-> "delete_pod", args |-> "{}"],
      [name |-> "exec_shell", args |-> "{}"],
      [name |-> "get_metrics", args |-> "{}"] }

ContentMarked == "Root Cause: memory limit exceeded\nSuggestion: raise the limit"
ContentPlain == "The logs show a panic. Suggest restarting the pod."

RECURSIVE SeqsUpTo(_, _)
SeqsUpTo(S, n) ==
    IF n = 0 THEN {<<>>}
    ELSE LET shorter == SeqsUpTo(S, n - 1)
         IN  shorter \cup {Append(s, x) : s \in {t \in shorter : Len(t) = n - 1}, x \in S}

\* A Chat outcome: an error, or a message with content and tool calls.
LLMError == [err |-> "api rate limit exceeded"]
\* The ids the LLM gives the tool calls of one response: call_<n>, n counting the
\* calls of the run.
WithIDs(calls, before) ==
    [k \in 1..Len(calls) |->
        [id |-> "call_" \o ToString(before + k), name |-> calls[k].name, args |-> calls[k].args]]
CallLists == SeqsUpTo(CallSet, MaxCalls) \ {<<>>}
Responses(lists, budget) ==
    {LLMError}
    \cup {[err |-> "", content |-> c, toolCalls |-> <<>>] : c \in {ContentMarked, ContentPlain}}
    \cup {[err |-> "", content |-> "Thinking...", toolCalls |-> tc] :
            tc \in {l \in lists : Len(l) <= budget}}
\* What the LLM may answer when the run has already requested MaxCalls - b tool calls.
RunResponses == [b \in 0..MaxCalls |-> Responses(CallLists, b)]

-----------------------------------------------------------------------------
(* internal/agent: memory, tools, findings *)

MessageTypeUser == "user"
MessageTypeAssistant == "assistant"
MessageTypeTool == "tool"

AddUserMessage(mem, content) ==
    Append(mem, [type |-> MessageTypeUser, content |-> content, toolCalls |-> <<>>, toolCallID |-> ""])
AddAssistantMessage(mem, content) ==
    Append(mem, [type |-> MessageTypeAssistant, content |-> content, toolCalls |-> <<>>, toolCallID |-> ""])
AddToolOutput(mem, id, content) ==
    Append(mem, [type |-> MessageTypeTool, content |-> content, toolCalls |-> <<>>, toolCallID |-> id])
AddAssistantToolCall(mem, toolCalls) ==
    Append(mem, [type |-> MessageTypeAssistant, content |-> "", toolCalls |-> toolCalls, toolCallID |-> ""])

\* s[:n] + "..." when len(s) > n
Truncate(s, n) == IF Len(s) > n THEN SubSeq(s, 1, n) \o "..." ELSE s

\* NewAgent's filter of the tool list by skill.AllowedTools
FilterTools_All(tools, allowed) == tools
FilterTools(tools, allowed) ==
    IF Len(allowed) = 0 THEN tools
    ELSE SelectSeq(tools, LAMBDA t : \E k \in 1..Len(allowed) : allowed[k] = t.name)

NoCb == [kind |-> "none"]
NoOutcome == [kind |-> "running"]

NewAgent(tools, maxSteps, skill) ==
    [ tools |-> FilterTools(tools, skill.allowedTools),
      memory |-> IF skill.systemPrompt # ""
                 THEN AddUserMessage(<<>>, "SYSTEM INSTRUCTION: " \o skill.systemPrompt)
                 ELSE <<>>,
      maxSteps |-> maxSteps,
      skill |-> skill,
      approved |-> FALSE,
      pc |-> "new",
      step |-> 0,
      resp |-> LLMError,
      idx |-> 0,
      recentFindings |-> <<>>,
      out |-> NoOutcome,
      cb |-> NoCb,
      executed |-> <<>>,
      llmCalls |-> 0,
      requested |-> 0 ]

\* The first tool of a.tools with the given name, 0 when there is none
RECURSIVE FindFrom(_, _, _)
FindFrom(tools, name, k) ==
    IF k > Len(tools) THEN 0
    ELSE IF tools[k].name = name THEN k ELSE FindFrom(tools, name, k + 1)
FindTool_Default(tools, name) ==
    IF FindFrom(tools, name, 1) = 0 THEN 1 ELSE FindFrom(tools, name, 1)
FindTool(tools, name) == FindFrom(tools, name, 1)

\* Tool.Execute: (output, error)
Execute(name, args) ==
    IF args = "{bad}" THEN [output |-> "", err |-> "connection refused"]
    ELSE [output |-> "output of " \o name, err |-> ""]

detectLoop_Pair(findings, windowSize) ==
    IF Len(findings) < windowSize - 1 THEN FALSE
    ELSE LET tail == SubSeq(findings, Len(findings) - windowSize + 2, Len(findings))
         IN  \A k \in 2..Len(tail) :
                tail[k].toolName = tail[1].toolName /\ tail[k].toolArgs = tail[1].toolArgs
detectLoop(findings, windowSize) ==
    IF Len(findings) < windowSize THEN FALSE
    ELSE LET tail == SubSeq(findings, Len(findings) - windowSize + 1, Len(findings))
         IN  \A k \in 2..Len(tail) :
                tail[k].toolName = tail[1].toolName /\ tail[k].toolArgs = tail[1].toolArgs

\* extractRootCause on the contents the model's LLM concludes with: the marked content
\* has both markers, the plain one falls back to its first sentence.
extractRootCause(content) ==
    IF content = ContentMarked
    THEN [rootCause |-> "memory limit exceeded", suggestion |-> "raise the limit"]
    ELSE [rootCause |-> "The logs show a panic", suggestion |-> content]

Result(rs) ==
    [kind |-> "result", toolName |-> "", text |-> "", rootCause |-> rs.rootCause,
     suggestion |-> rs.suggestion]
ErrWaitingForApproval(toolName) ==
    [kind |-> "waiting", toolName |-> toolName,
     text |-> "tool " \o toolName \o " requires approval", rootCause |-> "", suggestion |-> ""]
ErrOther(kind, text) ==
    [kind |-> kind, toolName |-> "", text |-> text, rootCause |-> "", suggestion |-> ""]

Returned(a, out) == [a EXCEPT !.pc = "returned", !.out = out]

GoalText(goal) ==
    "Diagnosis Goal: " \o goal
    \o "\n\nWhen you have enough information to conclude, respond with:\nRoot Cause: <concise root cause>\nSuggestion: <actionable remediation>"

-----------------------------------------------------------------------------
(* BaseAgent.Run, cut at its suspension points.  a.cb holds the onStepComplete  *)
(* call Run is blocked in; Run goes on once the callback has returned (NoCb).   *)

\* The loop head: step < maxSteps, then the select on ctx.Done().
LoopHead_Unbounded(a, ctx) ==
    IF ctx # "" THEN Returned(a, ErrOther("ctx", ctx)) ELSE [a EXCEPT !.pc = "chat"]
LoopHead_NoGate(a, ctx) ==
    IF a.step >= a.maxSteps
    THEN Returned(a, ErrOther("maxSteps",
            "agent exceeded maximum steps (" \o ToString(a.maxSteps) \o ")"))
    ELSE [a EXCEPT !.pc = "chat"]
LoopHead(a, ctx) ==
    IF a.step >= a.maxSteps
    THEN Returned(a, ErrOther("maxSteps",
            "agent exceeded maximum steps (" \o ToString(a.maxSteps) \o ")"))
    ELSE IF ctx # "" THEN Returned(a, ErrOther("ctx", ctx))
    ELSE [a EXCEPT !.pc = "chat"]

\* Run's entry: the goal message, then the first loop head.
RunBegin(a, goal, approved, ctx) ==
    LoopHead([a EXCEPT !.memory = AddUserMessage(@, GoalText(goal)),
                       !.approved = approved,
                       !.recentFindings = <<>>,
                       !.step = 0], ctx)

\* (as RunChat, reporting the failed call as a thought before returning)
RunChat_ThinkFirst(a, r) ==
    IF r.err # ""
    THEN Returned([a EXCEPT !.llmCalls = @ + 1,
                            !.cb = [kind |-> "cb", finding |-> <<>>,
                                    history |-> "Step " \o ToString(a.step + 1) \o " (Think): "]],
                  ErrOther("llm", "failed to chat with LLM: " \o r.err))
    ELSE [a EXCEPT !.llmCalls = @ + 1,
                   !.requested = @ + Len(r.toolCalls),
                   !.resp = r,
                   !.pc = "think",
                   !.cb = [kind |-> "cb", finding |-> <<>>,
                           history |-> "Step " \o ToString(a.step + 1) \o " (Think): "
                                       \o Truncate(r.content, ThoughtMax)]]
\* Think: the Chat call returns r; the "Think" history line is handed to onStep.
RunChat(a, r) ==
    IF r.err # ""
    THEN Returned([a EXCEPT !.llmCalls = @ + 1],
                  ErrOther("llm", "failed to chat with LLM: " \o r.err))
    ELSE [a EXCEPT !.llmCalls = @ + 1,
                   !.requested = @ + Len(r.toolCalls),
                   !.resp = r,
                   !.pc = "think",
                   !.cb = [kind |-> "cb", finding |-> <<>>,
                           history |-> "Step " \o ToString(a.step + 1) \o " (Think): "
                                       \o Truncate(r.content, ThoughtMax)]]

\* The assistant turn is recorded; without tool calls the run concludes.
RunRecord_Silent(a) ==
    IF Len(a.resp.toolCalls) > 0
    THEN [a EXCEPT !.memory = AddAssistantToolCall(@, a.resp.toolCalls),
                   !.idx = 1,
                   !.pc = "act"]
    ELSE Returned([a EXCEPT !.memory = AddAssistantMessage(@, a.resp.content)],
                  Result(extractRootCause(a.resp.content)))
RunRecord(a) ==
    IF Len(a.resp.toolCalls) > 0
    THEN [a EXCEPT !.memory = AddAssistantToolCall(@, a.resp.toolCalls),
                   !.idx = 1,
                   !.pc = "act"]
    ELSE LET rs == extractRootCause(a.resp.content)
         IN  Returned([a EXCEPT !.memory = AddAssistantMessage(@, a.resp.content),
                                !.cb = [kind |-> "cb", finding |-> <<>>,
                                        history |-> "Step " \o ToString(a.step + 1)
                                            \o " (Conclude): RootCause: " \o rs.rootCause
                                            \o " | Suggestion: " \o rs.suggestion]],
                      Result(rs))

\* The safety check of a found tool: Forbidden is answered without Execute,
\* HighRisk without approval ends the run.
IsForbidden_Never(safetyLevel) == FALSE
IsForbidden(safetyLevel) == safetyLevel = SafetyLevelForbidden
NeedsApproval_Never(safetyLevel, approved) == FALSE
NeedsApproval(safetyLevel, approved) == safetyLevel = SafetyLevelHighRisk /\ ~approved

\* Finding.Step of the findings of the step in progress
FindingStep_Remaining(a) == a.maxSteps - a.step
FindingStep(a) == a.step + 1

\* Act on tool call a.idx of the response: lookup, safety check, Execute, observe,
\* checkpoint.
RunAct(a) ==
    LET tc == a.resp.toolCalls[a.idx]
        k == FindTool(a.tools, tc.name)
        safetyLevel == IF k = 0 THEN "" ELSE a.tools[k].safety
        runs == k # 0 /\ ~IsForbidden(safetyLevel)
        r == Execute(tc.name, tc.args)
        toolOutput ==
            IF k = 0 THEN "Error: Tool " \o tc.name \o " not found"
            ELSE IF IsForbidden(safetyLevel)
            THEN "Error: Tool " \o a.tools[k].name \o " is forbidden by safety policy."
            ELSE IF r.err # "" THEN "Error executing tool: " \o r.err
            ELSE r.output
        summary == Truncate(toolOutput, SummaryMax)
        finding == [step |-> FindingStep(a), toolName |-> tc.name, toolArgs |-> tc.args,
                    summary |-> summary]
    IN  IF k # 0 /\ ~IsForbidden(safetyLevel) /\ NeedsApproval(safetyLevel, a.approved)
        THEN Returned(a, ErrWaitingForApproval(a.tools[k].name))
        ELSE [a EXCEPT !.executed = IF runs THEN Append(@, a.tools[k]) ELSE @,
                       !.memory = AddToolOutput(@, tc.id, toolOutput),
                       !.recentFindings = Append(@, finding),
                       !.cb = [kind |-> "cb", finding |-> <<finding>>,
                               history |-> "Step " \o ToString(a.step + 1) \o " (Act): "
                                   \o tc.name \o "(" \o tc.args \o ") -> " \o summary],
                       !.idx = @ + 1,
                       !.pc = IF a.idx = Len(a.resp.toolCalls) THEN "endstep" ELSE "act"]

\* After the last tool call of the step: loop detection, step++, the next loop head.
RunEndStep(a, ctx) ==
    IF detectLoop(a.recentFindings, LoopWindow)
    THEN Returned(a, ErrOther("loop",
            "agent loop detected: tool \"" \o a.recentFindings[Len(a.recentFindings)].toolName
            \o "\" called with identical arguments 3 consecutive times, aborting to prevent infinite token consumption"))
    ELSE LoopHead([a EXCEPT !.step = @ + 1], ctx)

\* onStepComplete has returned.
CallbackReturned(a) == [a EXCEPT !.cb = NoCb]

RunDone(a) == a.pc = "returned" /\ a.cb = NoCb

-----------------------------------------------------------------------------
(* The DiagnosisTask object and the control store *)

PhasePending == "Pending"
PhaseRunning == "Running"
PhaseWaitingApproval == "WaitingApproval"
PhaseCompleted == "Completed"
PhaseFailed == "Failed"

\* A task as created: empty status.  state: "present", "deleting" (deletion timestamp
\* set, the object still stored) or "gone".  report: <<>> is nil.
NewTask(approved) ==
    [ state |-> "present", approved |-> approved, maxSteps |-> TaskMaxSteps,
      status |-> [phase |-> "", matchedSkill |-> "", checkpoint |-> <<>>, history |-> <<>>,
                  report |-> <<>>, message |-> ""] ]

\* client.Get: the stored object, or NotFound.  Of the copy a caller holds the model
\* keeps what the caller reads of it later; the rest of the copy equals the stored
\* object for as long as the copy is fresh.
NotFound == [state |-> "gone"]
Get(t) ==
    IF t.state = "gone" THEN NotFound
    ELSE [state |-> t.state, approved |-> t.approved, maxSteps |-> t.maxSteps,
          phase |-> t.status.phase, checkpoint |-> t.status.checkpoint]

\* client.Status().Update succeeds when the object is stored and the copy carries its
\* current resourceVersion, that is, nothing wrote the object since the copy was read
\* (fresh).
UpdateOK(t, fresh) == t.state # "gone" /\ fresh

\* Every write of the object gives it a new resourceVersion: the copies held by
\* Reconcile and by the goroutines are stale from then on.
StaleRec(r) == IF r.pc = "idle" THEN r ELSE [r EXCEPT !.fresh = FALSE]
StaleAgent(x) == IF x.g \in {"none", "dead"} THEN x ELSE [x EXCEPT !.fresh = FALSE]

\* task.Status.Phase = p on the copy, written back
SetPhase(t, p) == [t EXCEPT !.status.phase = p]

\* Reconcile's "Handle deletion/cleanup" condition
NeedsCleanup(c) ==
    \/ c.state = "deleting"
    \/ c.phase = PhaseCompleted
    \/ c.phase = PhaseFailed

\* ActiveAgents.Load(key): loaded
Loaded(a) == a # 0

\* onStepComplete's change of the fetched task
OnStepApply_Replace(latest, cb) ==
    [latest EXCEPT !.status.checkpoint = cb.finding,
                   !.status.history = IF cb.history # "" THEN Append(@, cb.history) ELSE @]
OnStepApply(latest, cb) ==
    [latest EXCEPT !.status.checkpoint = @ \o cb.finding,
                   !.status.history = IF cb.history # "" THEN Append(@, cb.history) ELSE @]

\* The status the goroutine writes when Run has returned
TerminalApply_ErrorFails(latest, out) ==
    IF out.kind = "result"
    THEN [latest EXCEPT !.status.phase = PhaseCompleted,
                        !.status.report = <<[rootCause |-> out.rootCause,
                                             suggestion |-> out.suggestion]>>]
    ELSE [latest EXCEPT !.status.phase = PhaseFailed,
                        !.status.report = <<[rootCause |-> "Agent execution failed",
                                             suggestion |-> out.text]>>]
TerminalApply_NoReport(latest, out) ==
    IF out.kind = "waiting"
    THEN [latest EXCEPT !.status.phase = PhaseWaitingApproval,
                        !.status.message = "Tool " \o out.toolName \o " requires approval."]
    ELSE [latest EXCEPT !.status.phase =
                            IF out.kind = "result" THEN PhaseCompleted ELSE PhaseFailed]
TerminalApply(latest, out) ==
    IF out.kind = "result"
    THEN [latest EXCEPT !.status.phase = PhaseCompleted,
                        !.status.report = <<[rootCause |-> out.rootCause,
                                             suggestion |-> out.suggestion]>>]
    ELSE IF out.kind = "waiting"
    THEN [latest EXCEPT !.status.phase = PhaseWaitingApproval,
                        !.status.message = "Tool " \o out.toolName \o " requires approval."]
    ELSE [latest EXCEPT !.status.phase = PhaseFailed,
                        !.status.report = <<[rootCause |-> "Agent execution failed",
                                             suggestion |-> out.text]>>]

\* BaseAgent.Restore
RECURSIVE FindingLines(_, _)
FindingLines(findings, k) ==
    IF k > Len(findings) THEN ""
    ELSE "- Step " \o ToString(findings[k].step) \o " [" \o findings[k].toolName \o "]: "
         \o findings[k].summary \o "\n" \o FindingLines(findings, k + 1)
Restore_Nothing(a, findings) == a
Restore(a, findings) ==
    IF Len(findings) = 0 THEN a
    ELSE [a EXCEPT !.memory = AddUserMessage(@,
            "Previous diagnosis findings (restored from checkpoint):\n"
            \o FindingLines(findings, 1))]

\* The goal the goroutine formulates from spec.target
TaskGoal == "Diagnose the issue with Pod nginx-x in namespace default."

-----------------------------------------------------------------------------
(* internal/alert: group keys, label merge, task creation *)

\* Bounds of the aggregator model
\* SpecAgg: the last millisecond of the clock
MaxTime == 2
\* SpecAgg: the most Ingest calls made
MaxIngests == 3
\* SpecAgg: windowSize, in milliseconds
WindowSize == 1

maxAlertSegment == 40

\* The namespace the creator stores its tasks in
TargetNamespace == "kubeminds-system"

\* labels[k] of a Go map: "" when the key is missing
Label(labels, k) == IF k \in DOMAIN labels THEN labels[k] ELSE ""

\* The label maps of the alerts posted: a pod alert, the same with other labels, a
\* namespace alert without a pod label, and an alert whose pod label is "_".
AlertItems ==
    { [alertname |-> "HighCPU", namespace |-> "default", pod |-> "nginx-abc",
       severity |-> "warning", instance |-> "10.0.0.1"],
      [alertname |-> "HighCPU", namespace |-> "default", pod |-> "nginx-abc",
       severity |-> "critical"],
      [alertname |-> "HighCPU", namespace |-> "default"],
      [alertname |-> "HighCPU", namespace |-> "default", pod |-> "_"] }

buildGroupKey(labels) ==
    LET alertname == IF Label(labels, "alertname") = "" THEN "unknown"
                     ELSE Label(labels, "alertname")
        namespace == IF Label(labels, "namespace") = "" THEN "_"
                     ELSE Label(labels, "namespace")
        pod == IF Label(labels, "pod") = "" THEN "_" ELSE Label(labels, "pod")
    IN  alertname \o "/" \o namespace \o "/" \o pod

\* group.MergedLabels[k] = v
PutLabel_KeepFirst(merged, k, v) ==
    [x \in DOMAIN merged \cup {k} |-> IF x \in DOMAIN merged THEN merged[x] ELSE v]
PutLabel(merged, k, v) ==
    [x \in DOMAIN merged \cup {k} |-> IF x = k THEN v ELSE merged[x]]

\* for k, v := range item.Labels { group.MergedLabels[k] = v }
RECURSIVE MergeLabels(_, _, _)
MergeLabels(merged, labels, keys) ==
    IF keys = {} THEN merged
    ELSE LET k == CHOOSE x \in keys : TRUE
         IN  MergeLabels(PutLabel(merged, k, labels[k]), labels, keys \ {k})

\* The AlertGroup Ingest creates for a key it does not find
NewGroup(key, labels, now) ==
    [ key |-> key, mergedLabels |-> <<>>, alertName |-> Label(labels, "alertname"),
      namespace |-> Label(labels, "namespace"), pod |-> Label(labels, "pod"),
      firstSeen |-> now, lastSeen |-> now, count |-> 0 ]

\* What Ingest does to the groups under the lock
IngestInto(gs, key, labels, now) ==
    LET group == IF key \in DOMAIN gs THEN gs[key] ELSE NewGroup(key, labels, now)
        merged == [group EXCEPT !.mergedLabels = MergeLabels(@, labels, DOMAIN labels),
                                !.lastSeen = now,
                                !.count = @ + 1]
    IN  [k \in DOMAIN gs \cup {key} |-> IF k = key THEN merged ELSE gs[k]]

\* sweep's expiry test
Expired_FirstSeen(group, now) == now - group.firstSeen > WindowSize
Expired_Never(group, now) == FALSE
Expired(group, now) == now - group.lastSeen > WindowSize

\* The characters of the alert names of the model
Chars(s) ==
    IF s = "HighCPU" THEN <<"H", "i", "g", "h", "C", "P", "U">> ELSE <<>>

UpperCase == <<"A", "B", "C", "D", "E", "F", "G", "H", "I", "J", "K", "L", "M",
               "N", "O", "P", "Q", "R", "S", "T", "U", "V", "W", "X", "Y", "Z">>
LowerCase == <<"a", "b", "c", "d", "e", "f", "g", "h", "i", "j", "k", "l", "m",
               "n", "o", "p", "q", "r", "s", "t", "u", "v", "w", "x", "y", "z">>
Digits == {"0", "1", "2", "3", "4", "5", "6", "7", "8", "9"}

ToLower(c) ==
    IF \E i \in 1..Len(UpperCase) : UpperCase[i] = c
    THEN LowerCase[CHOOSE i \in 1..Len(UpperCase) : UpperCase[i] = c]
    ELSE c

\* strings.Trim(s, "-"), one side at a time: the leading and the trailing "-"
TrimLeft(cs) ==
    LET lead == {k \in 1..Len(cs) : \A j \in 1..k : cs[j] = "-"}
    IN  SubSeq(cs, Cardinality(lead) + 1, Len(cs))
TrimRight(cs) ==
    LET trail == {k \in 1..Len(cs) : \A j \in k..Len(cs) : cs[j] = "-"}
    IN  SubSeq(cs, 1, Len(cs) - Cardinality(trail))

\* The string of the characters cs
RECURSIVE JoinFrom(_, _)
JoinFrom(cs, k) == IF k > Len(cs) THEN "" ELSE cs[k] \o JoinFrom(cs, k + 1)
Join(cs) == JoinFrom(cs, 1)

\* sanitizeName on the characters of s: lower-case, "-" for every other character,
\* trimmed and cut
sanitizeChars_CutOnly(cs, maxLen) ==
    LET mapped == [i \in 1..Len(cs) |->
                      LET r == ToLower(cs[i])
                      IN  IF (\E j \in 1..Len(LowerCase) : LowerCase[j] = r) \/ r \in Digits
                          THEN r ELSE "-"]
        result == TrimRight(TrimLeft(mapped))
    IN  IF Len(result) > maxLen THEN SubSeq(result, 1, maxLen) ELSE result
sanitizeChars(cs, maxLen) ==
    LET mapped == [i \in 1..Len(cs) |->
                      LET r == ToLower(cs[i])
                      IN  IF (\E j \in 1..Len(LowerCase) : LowerCase[j] = r) \/ r \in Digits
                          THEN r ELSE "-"]
        result == TrimRight(TrimLeft(mapped))
    IN  IF Len(result) > maxLen THEN TrimRight(SubSeq(result, 1, maxLen)) ELSE result

sanitizeName(s, maxLen) == Join(sanitizeChars(Chars(s), maxLen))

\* buildTaskName on the characters of alertName: the segment between "alert-" and
\* the time stamp.  time.Now().UnixMilli() is ms
buildTaskSegment(cs) ==
    LET safe == sanitizeChars(cs, maxAlertSegment)
    IN  IF safe = <<>> THEN <<"u", "n", "k", "n", "o", "w", "n">> ELSE safe

Sprintf_alert(segment, ms) == "alert-" \o Join(segment) \o "-" \o ToString(ms)

buildTaskName(alertName, ms) == Sprintf_alert(buildTaskSegment(Chars(alertName)), ms)

buildTarget(group) ==
    IF group.pod # ""
    THEN [namespace |-> group.namespace, name |-> group.pod, kind |-> "Pod"]
    ELSE LET ns == IF group.namespace = "" THEN TargetNamespace ELSE group.namespace
         IN  [namespace |-> ns, name |-> ns, kind |-> "Namespace"]

buildTask(group, ms) ==
    [ name |-> buildTaskName(group.alertName, ms),
      namespace |-> TargetNamespace,
      target |-> buildTarget(group),
      alertContext |-> [name |-> group.alertName, labels |-> group.mergedLabels] ]

\* client.Create: the store's answer to the creation of t
StoreCreate(stored, t, storeErr) ==
    IF storeErr # "" THEN storeErr
    ELSE IF \E x \in stored : x.name = t.name /\ x.namespace = t.namespace
    THEN "AlreadyExists"
    ELSE ""

\* DiagnosisTaskCreator.Create: the tasks stored afterwards and the error returned
Create_ReturnAll(stored, group, ms, storeErr) ==
    LET t == buildTask(group, ms)
        err == StoreCreate(stored, t, storeErr)
    IN  [ tasks |-> IF err = "" THEN stored \cup {t} ELSE stored,
          err |-> IF err = "" THEN ""
                  ELSE "failed to create DiagnosisTask for alert group "
                       \o group.key \o ": " \o err ]
Create(stored, group, ms, storeErr) ==
    LET t == buildTask(group, ms)
        err == StoreCreate(stored, t, storeErr)
    IN  [ tasks |-> IF err = "" THEN stored \cup {t} ELSE stored,
          err |-> IF err \in {"", "AlreadyExists"} THEN ""
                  ELSE "failed to create DiagnosisTask for alert group "
                       \o group.key \o ": " \o err ]

\* The goroutines that call Ingest concurrently: two webhook requests being served
IngestIds == {1, 2}
NoIngest == [pc |-> "idle"]
NoSweep == [pc |-> "idle"]

InitAgg ==
    /\ clock = 0
    /\ groups = <<>>
    /\ ingest = [p \in IngestIds |-> NoIngest]
    /\ nIngests = 0
    /\ sweep = NoSweep
    /\ tasks = {}
    /\ flushLog = <<>>
    /\ l2Go = EmptyBag
    /\ l2Log = EmptyBag

\* WithL2Store was not called
NoL2Store == l2Store = FALSE

-----------------------------------------------------------------------------
(* internal/tools: the Router *)

\* SpecRouter: the providers a router may hold
MaxProviders == 3

\* The tool lists of the providers that may be added
ProviderTools == {<<>>, <<"internal_tool">>, <<"tool_a", "tool_b">>}

\* The error of a provider's ListTools: none, or the provider is not ready
ProviderErrors == {"", "provider unavailable"}

NoReturn == [kind |-> "none"]

\* NewRouter.  Of a ListTools call the model keeps the index of the range loop, the
\* tools gathered, the error of every provider call made, and what was returned.
NewRouter ==
    [providers |-> <<>>, pc |-> "idle", i |-> 0, allTools |-> <<>>, errs |-> <<>>,
     ret |-> NoReturn]

\* The loop body of Router.ListTools for one provider's answer
Gather_KeepFailed(allTools, providerTools, err) == allTools \o providerTools
Gather(allTools, providerTools, err) ==
    IF err # "" THEN allTools ELSE allTools \o providerTools

-----------------------------------------------------------------------------
(* The alert names task names are built from *)

\* SpecName: the characters before and behind the run of one character
MaxAffix == 1

\* A letter of each case, a digit, the replacement itself and another character
NameChars == {"a", "Z", "9", "-", "_"}

\* The lengths of the run: none, one, and around the cut of the segment
RunLens == {0, 1} \cup ((maxAlertSegment - 2)..(maxAlertSegment + 1))

Repeat(c, n) == [i \in 1..n |-> c]

\* The alert names of SpecName, as characters
AlertNames ==
    {head \o Repeat(c, n) \o tail :
        head \in SeqsUpTo(NameChars, MaxAffix), tail \in SeqsUpTo(NameChars, MaxAffix),
        c \in NameChars, n \in RunLens}

NoNaming == [pc |-> "none"]

-----------------------------------------------------------------------------
(* internal/agent: the SkillManager *)

\* How many times Match is called for the task
MaxMatches == 2

\* The skills of the skill directory, by name and triggers: the two built-in ones
\* have no trigger, one skill is triggered by an alert name, one by a label.
SkillFiles ==
    { [name |-> "base_skill", triggers |-> <<>>],
      [name |-> "oom_diagnosis", triggers |-> <<>>],
      [name |-> "crashloop_diagnosis",
       triggers |-> <<[alertName |-> "KubePodCrashLooping", labels |-> <<>>]>>],
      [name |-> "critical_triage",
       triggers |-> <<[alertName |-> "", labels |-> [severity |-> "critical"]]>>] }

\* task.Spec.AlertContext: nil, or a name and labels
NoAlertContext == [name |-> "", labels |-> <<>>, nil |-> TRUE]
AlertContexts ==
    { NoAlertContext,
      [name |-> "KubePodCrashLooping", labels |-> [severity |-> "critical"], nil |-> FALSE],
      [name |-> "KubePodCrashLooping", labels |-> [severity |-> "warning"], nil |-> FALSE],
      [name |-> "", labels |-> [reason |-> "OOMKilled"], nil |-> FALSE],
      [name |-> "", labels |-> [alertname |-> "KubeContainerOOMKilled"], nil |-> FALSE],
      [name |-> "HighCPU", labels |-> <<>>, nil |-> FALSE] }

\* SkillManager.Register: sm.skills[skill.Name] = skill
Register(skills, skill) ==
    [n \in DOMAIN skills \cup {skill.name} |-> IF n = skill.name THEN skill ELSE skills[n]]

matchesTrigger(context, trigger) ==
    /\ ~context.nil
    /\ ~(trigger.alertName # "" /\ context.name # trigger.alertName)
    /\ \A k \in DOMAIN trigger.labels : Label(context.labels, k) = trigger.labels[k]

\* The skills with a trigger that matches
Triggered(skills, context) ==
    {n \in DOMAIN skills :
        \E t \in 1..Len(skills[n].triggers) : matchesTrigger(context, skills[n].triggers[t])}

\* SkillManager.Match: the names of the skills it may return.  The range over the
\* map sm.skills visits the skills in an order the language leaves open, so that
\* any skill with a matching trigger may be the first one found.
Match(skills, context) ==
    LET hits == Triggered(skills, context)
        oom == /\ ~context.nil
               /\ \/ Label(context.labels, "reason") = "OOMKilled"
                  \/ Label(context.labels, "alertname") = "KubeContainerOOMKilled"
               /\ "oom_diagnosis" \in DOMAIN skills
    IN  IF hits # {} THEN hits
        ELSE IF oom THEN {"oom_diagnosis"}
        ELSE IF "base_skill" \in DOMAIN skills THEN {"base_skill"}
        ELSE {BaseSkill.name}

NoSkillManager == [skills |-> <<>>, context |-> NoAlertContext, results |-> <<>>]

InitLib ==
    /\ router = NewRouter
    /\ naming = NoNaming
    /\ skillMgr = NoSkillManager

-----------------------------------------------------------------------------
(* Spec: Reconcile and the agent goroutines of one task *)

\* What the LLM may answer in a run of the task: a conclusion, one read-only call, or
\* a read-only call followed by a high-risk one.
TaskResponses ==
    { [err |-> "", content |-> ContentMarked, toolCalls |-> <<>>],
      [err |-> "", content |-> "Thinking...",
       toolCalls |-> <<[name |-> "get_pod_logs", args |-> "{}"]>>],
      [err |-> "", content |-> "Thinking...",
       toolCalls |-> <<[name |-> "get_pod_logs", args |-> "{}"],
                       [name |-> "delete_pod", args |-> "{}"]>>] }

AgentIds == 1..MaxAgents
Idle == [pc |-> "idle"]
NoAgent == [g |-> "none"]
Dead == [g |-> "dead"]
Live(i) == agents[i].g \notin {"none", "dead"}

InitStore ==
    /\ active = 0
    /\ rec = Idle
    /\ agents = [i \in AgentIds |-> NoAgent]
    /\ nAgents = 0
    /\ dirty = TRUE

InitCtl ==
    /\ \E approved \in BOOLEAN : task = NewTask(approved)
    /\ InitStore

Init ==
    /\ run = NewAgent(Registry, 0, BaseSkill)
    /\ ctxErr = ""
    /\ cbLog = <<>>
    /\ InitCtl
    /\ InitAgg
    /\ NoL2Store
    /\ InitLib

\* cancel(): the context of agent i is canceled (no effect once it is done)
Canceled(ags, i) ==
    IF i \in AgentIds /\ ags[i].g \notin {"none", "dead"} /\ ags[i].ctx = ""
    THEN [ags EXCEPT ![i].ctx = "context canceled"]
    ELSE ags

\* (as Spawned, the steps left being those the checkpoint has not used)
Spawned_BudgetLeft(c) ==
    [g |-> "skillGet", ctx |-> "", task |-> c, fresh |-> FALSE,
     a |-> NewAgent(Registry,
                    IF c.maxSteps > Len(c.checkpoint) THEN c.maxSteps - Len(c.checkpoint) ELSE 0,
                    BaseSkill)]

\* eg.Go(...): the goroutine starts with the task Reconcile holds
Spawned(c) ==
    [g |-> "skillGet", ctx |-> "", task |-> c, fresh |-> FALSE,
     a |-> NewAgent(Registry, c.maxSteps, BaseSkill)]

\* The object is written: agent i goes on as x, every other copy is stale
StaleAll(ags) == [j \in AgentIds |-> StaleAgent(ags[j])]
Wrote(ags, i, x) == [StaleAll(ags) EXCEPT ![i] = x]

\* r.Get at the head of Reconcile; NotFound is ignored and Reconcile returns
RecFetch ==
    rec' = IF task.state = "gone" THEN Idle
           ELSE [pc |-> "got", task |-> Get(task), fresh |-> TRUE]

\* A Reconcile call for the task, whatever made the framework issue it
RecGet ==
    /\ rec.pc = "idle"
    /\ RecFetch
    /\ UNCHANGED <<task, active, agents, nAgents, dirty, runVars, aggVars, libVars>>

\* A Reconcile call the framework issues because the task's key is queued: the task
\* was created or changed, or the last Reconcile asked for a requeue
RecGetQueued ==
    /\ rec.pc = "idle" /\ dirty
    /\ dirty' = FALSE
    /\ RecFetch
    /\ UNCHANGED <<task, active, agents, nAgents, runVars, aggVars, libVars>>

\* Deletion or a terminal phase: stop the active agent, if any
RecCleanup ==
    /\ rec.pc = "got" /\ NeedsCleanup(rec.task)
    /\ agents' = IF Loaded(active) THEN Canceled(agents, active) ELSE agents
    /\ active' = 0
    /\ rec' = Idle
    /\ UNCHANGED <<task, nAgents, dirty, runVars, aggVars, libVars>>

\* Reconcile's r.Status().Update of the phase; an error is returned (requeue)
RecWrite(p) ==
    /\ IF UpdateOK(task, rec.fresh)
       THEN /\ task' = SetPhase(task, p)
            /\ agents' = StaleAll(agents)
       ELSE UNCHANGED <<task, agents>>
    /\ dirty' = TRUE
    /\ rec' = Idle

\* Empty phase: write Pending and requeue
RecInitPending ==
    /\ rec.pc = "got" /\ ~NeedsCleanup(rec.task) /\ rec.task.phase = ""
    /\ RecWrite(PhasePending)
    /\ UNCHANGED <<active, nAgents, runVars, aggVars, libVars>>

\* (as RecLoad, taking the entry found for one to stop)
RecLoad_Cleanup ==
    /\ rec.pc = "got" /\ ~NeedsCleanup(rec.task) /\ rec.task.phase # ""
    /\ Loaded(active)
    /\ agents' = Canceled(agents, active)
    /\ active' = 0
    /\ rec' = Idle
    /\ UNCHANGED <<task, nAgents, dirty, runVars, aggVars, libVars>>

\* "Check if agent is already running locally": Reconcile returns when it is
RecLoad ==
    /\ rec.pc = "got" /\ ~NeedsCleanup(rec.task) /\ rec.task.phase # ""
    /\ Loaded(active)
    /\ rec' = Idle
    /\ UNCHANGED <<task, active, agents, nAgents, dirty, runVars, aggVars, libVars>>

\* No local agent (ActiveAgents.Load finds none) and the task is not in a phase
\* handled before
NotLoaded ==
    /\ rec.pc = "got" /\ ~NeedsCleanup(rec.task) /\ rec.task.phase # ""
    /\ ~Loaded(active)

\* WaitingApproval: back to Running once spec.approved is set
RecApproval ==
    /\ NotLoaded /\ rec.task.phase = PhaseWaitingApproval
    /\ IF rec.task.approved
       THEN RecWrite(PhaseRunning)
       ELSE rec' = Idle /\ UNCHANGED <<task, agents, dirty>>
    /\ UNCHANGED <<active, nAgents, runVars, aggVars, libVars>>

\* Pending or Running without a local agent: store the cancel handle; a resume
\* starts the goroutine at once
RecStart ==
    /\ NotLoaded /\ rec.task.phase \in {PhasePending, PhaseRunning}
    /\ nAgents < MaxAgents
    /\ active' = nAgents + 1
    /\ IF rec.task.phase = PhaseRunning
       THEN /\ agents' = [agents EXCEPT ![nAgents + 1] = Spawned(rec.task)]
            /\ nAgents' = nAgents + 1
            /\ rec' = Idle
       ELSE /\ rec' = [rec EXCEPT !.pc = "toRunning"]
            /\ UNCHANGED <<agents, nAgents>>
    /\ UNCHANGED <<task, dirty, runVars, aggVars, libVars>>

\* (as RecToRunning, returning the error with the entry left in the map)
RecToRunning_KeepEntry ==
    /\ rec.pc = "toRunning"
    /\ IF UpdateOK(task, rec.fresh)
       THEN /\ task' = SetPhase(task, PhaseRunning)
            /\ agents' = [StaleAll(agents) EXCEPT
                             ![nAgents + 1] = Spawned([rec.task EXCEPT !.phase = PhaseRunning])]
            /\ nAgents' = nAgents + 1
       ELSE UNCHANGED <<task, agents, nAgents>>
    /\ UNCHANGED active
    /\ dirty' = TRUE
    /\ rec' = Idle
    /\ UNCHANGED <<runVars, aggVars, libVars>>

\* Pending: write Running, then start the goroutine; on a failed write cancel,
\* remove the entry and return the error
RecToRunning ==
    /\ rec.pc = "toRunning"
    /\ IF UpdateOK(task, rec.fresh)
       THEN /\ task' = SetPhase(task, PhaseRunning)
            /\ agents' = [StaleAll(agents) EXCEPT
                             ![nAgents + 1] = Spawned([rec.task EXCEPT !.phase = PhaseRunning])]
            /\ nAgents' = nAgents + 1
            /\ UNCHANGED active
       ELSE /\ active' = 0
            /\ UNCHANGED <<task, agents, nAgents>>
    /\ dirty' = TRUE
    /\ rec' = Idle
    /\ UNCHANGED <<runVars, aggVars, libVars>>

\* The goroutine reads the task to record the matched skill
SkillGet(i) ==
    /\ agents[i].g = "skillGet"
    /\ agents' = [agents EXCEPT ![i].fresh = (task.state # "gone"), ![i].g = "skillUpdate"]
    /\ UNCHANGED <<task, active, rec, nAgents, dirty, runVars, aggVars, libVars>>

\* A goroutine's r.Status().Update of what it changed on its fetched copy; a failure
\* is logged.  The goroutine goes on as x.
AgentWrite(i, t, x) ==
    IF UpdateOK(task, agents[i].fresh)
    THEN /\ task' = t
         /\ agents' = Wrote(agents, i, x)
         /\ rec' = StaleRec(rec)
         /\ dirty' = TRUE
    ELSE /\ agents' = [agents EXCEPT ![i] = x]
         /\ UNCHANGED <<task, rec, dirty>>

\* ... writes status.matchedSkill, builds the agent, restores the checkpoint of the
\* task Reconcile held and enters Run
SkillUpdate(i) ==
    /\ agents[i].g = "skillUpdate"
    /\ LET ag == agents[i]
       IN  AgentWrite(i, [task EXCEPT !.status.matchedSkill = BaseSkill.name],
                      [ag EXCEPT !.g = "run", !.fresh = FALSE, !.task = NotFound,
                                 !.a = RunBegin(Restore(ag.a, ag.task.checkpoint), TaskGoal,
                                                ag.task.approved, ag.ctx)])
    /\ UNCHANGED <<active, nAgents, runVars, aggVars, libVars>>

\* A step of Run up to its next suspension point
AgentRun(i) ==
    /\ agents[i].g = "run" /\ agents[i].a.cb = NoCb
    /\ LET a == agents[i].a
       IN  \/ /\ a.pc = "chat"
              /\ \E r \in TaskResponses :
                    agents' = [agents EXCEPT ![i].a =
                        RunChat(a, IF r.err = ""
                                   THEN [r EXCEPT !.toolCalls = WithIDs(@, a.requested)]
                                   ELSE r)]
           \/ /\ a.pc = "think"
              /\ agents' = [agents EXCEPT ![i].a = RunRecord(a)]
           \/ /\ a.pc = "act"
              /\ agents' = [agents EXCEPT ![i].a = RunAct(a)]
           \/ /\ a.pc = "endstep"
              /\ agents' = [agents EXCEPT ![i].a = RunEndStep(a, agents[i].ctx)]
    /\ UNCHANGED <<task, active, rec, nAgents, dirty, runVars, aggVars, libVars>>

\* onStepComplete: r.Get of the latest task; on an error the callback returns
OnStepGet(i) ==
    /\ agents[i].g = "run" /\ agents[i].a.cb # NoCb
    /\ agents' = IF task.state = "gone"
                 THEN [agents EXCEPT ![i].a = CallbackReturned(@)]
                 ELSE [agents EXCEPT ![i].fresh = TRUE, ![i].g = "cbUpdate"]
    /\ UNCHANGED <<task, active, rec, nAgents, dirty, runVars, aggVars, libVars>>

\* onStepComplete: append and r.Status().Update
OnStepUpdate(i) ==
    /\ agents[i].g = "cbUpdate"
    /\ LET ag == agents[i]
       IN  AgentWrite(i, OnStepApply(task, ag.a.cb),
                      [ag EXCEPT !.g = "run", !.fresh = FALSE, !.a = CallbackReturned(@)])
    /\ UNCHANGED <<active, nAgents, runVars, aggVars, libVars>>

\* Run has returned: r.Get of the latest task; on an error the goroutine returns
FinalGet(i) ==
    /\ agents[i].g = "run" /\ RunDone(agents[i].a)
    /\ agents' = IF task.state = "gone"
                 THEN [agents EXCEPT ![i].g = "exit"]
                 ELSE [agents EXCEPT ![i].fresh = TRUE, ![i].g = "finalUpdate"]
    /\ UNCHANGED <<task, active, rec, nAgents, dirty, runVars, aggVars, libVars>>

\* The status write of Run's outcome
FinalUpdate(i) ==
    /\ agents[i].g = "finalUpdate"
    /\ LET ag == agents[i]
       IN  AgentWrite(i, TerminalApply(task, ag.a.out),
                      [ag EXCEPT !.g = "exit", !.fresh = FALSE])
    /\ UNCHANGED <<active, nAgents, runVars, aggVars, libVars>>

\* defer r.ActiveAgents.Delete(key); the goroutine is gone
AgentExit(i) ==
    /\ agents[i].g = "exit"
    /\ active' = 0
    /\ agents' = [agents EXCEPT ![i] = Dead]
    /\ UNCHANGED <<task, rec, nAgents, dirty, runVars, aggVars, libVars>>

\* A write of the object by the user
UserWrite(t) ==
    /\ task' = t
    /\ rec' = StaleRec(rec)
    /\ agents' = StaleAll(agents)
    /\ dirty' = TRUE
    /\ UNCHANGED <<active, nAgents, runVars, aggVars, libVars>>

\* The user sets spec.approved
Approve ==
    /\ task.state = "present" /\ ~task.approved
    /\ UserWrite([task EXCEPT !.approved = TRUE])

\* The user deletes the task: the deletion timestamp is set while a finalizer holds
\* the object
Delete ==
    /\ task.state = "present"
    /\ UserWrite([task EXCEPT !.state = "deleting"])

\* The object is removed from the store
Remove ==
    /\ task.state = "deleting"
    /\ UserWrite([task EXCEPT !.state = "gone"])

RecSteps ==
    RecCleanup \/ RecInitPending \/ RecLoad \/ RecApproval \/ RecStart \/ RecToRunning

Agent(i) ==
    SkillGet(i) \/ SkillUpdate(i) \/ AgentRun(i) \/ OnStepGet(i) \/ OnStepUpdate(i)
    \/ FinalGet(i) \/ FinalUpdate(i) \/ AgentExit(i)

\* Spec: Reconcile is called at any time; the user may approve and delete
Next ==
    \/ RecGet \/ RecSteps
    \/ \E i \in AgentIds : Agent(i)
    \/ Approve \/ Delete

Spec == Init /\ [][Next]_vars

\* SpecGone: as Spec, and the deleted object may leave the store
NextGone == Next \/ Remove

SpecGone == Init /\ [][NextGone]_vars

\* SpecQueue: Reconcile runs when the task's key is queued, and only then
NextQueue ==
    \/ RecGetQueued \/ RecSteps
    \/ \E i \in AgentIds : Agent(i)
    \/ Approve \/ Delete

SpecQueue == Init /\ [][NextQueue]_vars

\* SpecQueueGone: as SpecQueue, and the deleted object may leave the store
NextQueueGone == NextQueue \/ Remove

SpecQueueGone == Init /\ [][NextQueueGone]_vars

-----------------------------------------------------------------------------
(* SpecRun: one agent goroutine from Run to its status write, alone on the task *)

\* The task is Running when the goroutine calls Run; its policy gives maxSteps and
\* its spec the approval.
InitRun ==
    /\ \E m \in 0..MaxSteps, approved \in BOOLEAN :
            /\ run = NewAgent(Registry, m, BaseSkill)
            /\ task = [SetPhase(NewTask(approved), PhaseRunning) EXCEPT !.maxSteps = m]
    /\ ctxErr = ""
    /\ cbLog = <<>>
    /\ InitStore
    /\ InitAgg
    /\ NoL2Store
    /\ InitLib

\* A step of Run up to its next suspension point.  onStepComplete, alone on the
\* task, fetches it, appends and updates it before Run goes on.
Advance(a) ==
    /\ run' = CallbackReturned(a)
    /\ cbLog' = IF a.cb # NoCb THEN Append(cbLog, a.cb) ELSE cbLog
    /\ task' = IF a.cb # NoCb THEN OnStepApply(task, a.cb) ELSE task
    /\ UNCHANGED <<ctxErr, active, rec, agents, nAgents, dirty, aggVars, libVars>>

Begin ==
    /\ run.pc = "new"
    /\ Advance(RunBegin(run, TaskGoal, task.approved, ctxErr))

Chat ==
    /\ run.pc = "chat"
    /\ \E r \in RunResponses[MaxCalls - run.requested] :
            Advance(RunChat(run, IF r.err = ""
                                 THEN [r EXCEPT !.toolCalls = WithIDs(@, run.requested)]
                                 ELSE r))

Record ==
    /\ run.pc = "think"
    /\ Advance(RunRecord(run))

Act ==
    /\ run.pc = "act"
    /\ Advance(RunAct(run))

EndStep ==
    /\ run.pc = "endstep"
    /\ Advance(RunEndStep(run, ctxErr))

\* Run has returned: the goroutine writes the outcome to the task's status.
Finish ==
    /\ RunDone(run)
    /\ run' = [run EXCEPT !.pc = "done"]
    /\ task' = TerminalApply(task, run.out)
    /\ UNCHANGED <<ctxErr, cbLog, active, rec, agents, nAgents, dirty, aggVars, libVars>>

\* ctx.Err() of a context that is done: canceled, or past the agent timeout
CtxErrors == {"context canceled", "context deadline exceeded"}

\* The context of the run is done.
CtxDone ==
    /\ ctxErr = "" /\ run.pc \notin {"new", "returned", "done"}
    /\ \E e \in CtxErrors : ctxErr' = e
    /\ UNCHANGED <<run, cbLog, ctlVars, aggVars, libVars>>

NextRun == Begin \/ Chat \/ Record \/ Act \/ EndStep \/ Finish \/ CtxDone

SpecRun == InitRun /\ [][NextRun]_vars

\* SpecRunSkill: as SpecRun, for the skill the SkillManager matched
InitRunSkill ==
    /\ \E m \in 0..MaxSteps, approved \in BOOLEAN, skill \in Skills :
            /\ run = NewAgent(Registry, m, skill)
            /\ task = [SetPhase(NewTask(approved), PhaseRunning) EXCEPT !.maxSteps = m]
    /\ ctxErr = ""
    /\ cbLog = <<>>
    /\ InitStore
    /\ InitAgg
    /\ NoL2Store
    /\ InitLib

SpecRunSkill == InitRunSkill /\ [][NextRun]_vars

\* SpecRunFair: the goroutine is scheduled as long as it has a step to take
SpecRunFair == SpecRun /\ WF_vars(NextRun)

-----------------------------------------------------------------------------
(* SpecAgg: the aggregator, its concurrent Ingest calls and its sweep goroutine *)


\* The error the task store may answer a creation with
StoreErrors == {"", "connection refused"}

\* The orders in which a range over a map with the keys S may visit them
Orders(S) ==
    {o \in [1..Cardinality(S) -> S] : \A i, j \in 1..Cardinality(S) : o[i] = o[j] => i = j}

InitAggregator ==
    /\ run = NewAgent(Registry, 0, BaseSkill)
    /\ ctxErr = ""
    /\ cbLog = <<>>
    /\ task = NewTask(FALSE)
    /\ InitStore
    /\ InitAgg
    /\ NoL2Store
    /\ InitLib

\* A millisecond passes
Tick ==
    /\ clock < MaxTime
    /\ clock' = clock + 1
    /\ UNCHANGED <<groups, ingest, nIngests, sweep, tasks, flushLog, l2Vars,
                   runVars, ctlVars, libVars>>

\* Ingest: the key is built and the clock read, before the lock is taken
IngestNow(p) ==
    /\ ingest[p].pc = "idle" /\ nIngests < MaxIngests
    /\ \E labels \in AlertItems :
          ingest' = [ingest EXCEPT ![p] = [pc |-> "lock", labels |-> labels,
                                           key |-> buildGroupKey(labels), now |-> clock]]
    /\ nIngests' = nIngests + 1
    /\ UNCHANGED <<clock, groups, sweep, tasks, flushLog, l2Vars, runVars, ctlVars, libVars>>

\* Ingest under the lock: find or create the group, merge, bump lastSeen and count
IngestLocked(p) ==
    /\ ingest[p].pc = "lock"
    /\ LET c == ingest[p]
       IN  groups' = IngestInto(groups, c.key, c.labels, c.now)
    /\ ingest' = [ingest EXCEPT ![p] = NoIngest]
    /\ UNCHANGED <<clock, nIngests, sweep, tasks, flushLog, l2Vars, runVars, ctlVars, libVars>>

\* The ticker fires: sweep reads the clock
SweepNow ==
    /\ sweep.pc = "idle"
    /\ sweep' = [pc |-> "lock", now |-> clock]
    /\ UNCHANGED <<clock, groups, ingest, nIngests, tasks, flushLog, l2Vars,
                   runVars, ctlVars, libVars>>

\* sweep under the lock: the expired groups are collected and removed from the map
SweepCollect ==
    /\ sweep.pc = "lock"
    /\ LET gone == {k \in DOMAIN groups : Expired(groups[k], sweep.now)}
       IN  /\ groups' = [k \in DOMAIN groups \ gone |-> groups[k]]
           /\ \E o \in Orders(gone) :
                 sweep' = IF gone = {} THEN NoSweep
                          ELSE [pc |-> "flush",
                                expired |-> [i \in 1..Cardinality(gone) |-> groups[o[i]]]]
    /\ UNCHANGED <<clock, ingest, nIngests, tasks, flushLog, l2Vars, runVars, ctlVars, libVars>>

\* The error AppendAlertEvent may return
L2Errors == {"", "redis unavailable"}

\* The AlertEvent flush builds of a group
AlertEvent(group) ==
    [alertName |-> group.alertName, namespace |-> group.namespace, pod |-> group.pod,
     count |-> group.count, firstSeen |-> group.firstSeen, lastSeen |-> group.lastSeen]

\* flush after Create: with an L2 store, and no error of Create, the goroutine that
\* appends the event is started
FlushGo(pending, store, group, err) ==
    IF err = "" /\ store THEN pending (+) SetToBag({AlertEvent(group)}) ELSE pending

\* sweep's range over the expired groups after the flush of the first has returned err
AfterFlush_StopOnError(sw, err) ==
    IF Len(sw.expired) = 1 \/ err # "" THEN NoSweep ELSE [sw EXCEPT !.expired = Tail(@)]
AfterFlush(sw, err) ==
    IF Len(sw.expired) = 1 THEN NoSweep ELSE [sw EXCEPT !.expired = Tail(@)]

\* flush of the next expired group: Create, its error logged
SweepFlush ==
    /\ sweep.pc = "flush"
    /\ LET group == Head(sweep.expired)
       IN  \E storeErr \in StoreErrors :
              LET r == Create(tasks, group, clock, storeErr)
              IN  /\ tasks' = r.tasks
                  /\ flushLog' = Append(flushLog,
                        [key |-> group.key, alertName |-> group.alertName,
                         count |-> group.count, firstSeen |-> group.firstSeen,
                         lastSeen |-> group.lastSeen,
                         err |-> IF r.err = "" THEN ""
                                 ELSE "flush alert group " \o group.key \o ": " \o r.err])
                  /\ l2Go' = FlushGo(l2Go, l2Store, group, r.err)
                  /\ sweep' = AfterFlush(sweep, r.err)
    /\ UNCHANGED <<clock, groups, ingest, nIngests, l2Store, l2Log, runVars, ctlVars, libVars>>

\* One of the goroutines started by flush runs: AppendAlertEvent, its error logged
L2Append ==
    \E ev \in BagToSet(l2Go), err \in L2Errors :
        /\ l2Log' = l2Log (+) SetToBag({[event |-> ev, err |-> err]})
        /\ l2Go' = l2Go (-) SetToBag({ev})
        /\ UNCHANGED <<clock, groups, ingest, nIngests, sweep, tasks, flushLog, l2Store,
                       runVars, ctlVars, libVars>>

Ingest(p) == IngestNow(p) \/ IngestLocked(p)

NextAgg ==
    \/ Tick
    \/ \E p \in IngestIds : Ingest(p)
    \/ SweepNow \/ SweepCollect \/ SweepFlush

SpecAgg == InitAggregator /\ [][NextAgg]_vars

\* SpecAggLive: the alerts stop early enough for the clock of the model to pass
\* their window; the ticker keeps firing, time passes, and a goroutine that waits
\* for the lock or holds work gets to run.
IngestNowEarly(p) ==
    /\ clock + WindowSize < MaxTime
    /\ IngestNow(p)

NextAggLive ==
    \/ Tick
    \/ \E p \in IngestIds : IngestNowEarly(p) \/ IngestLocked(p)
    \/ SweepNow \/ SweepCollect \/ SweepFlush

\* The step of the sweep goroutine from one expired group to the next, whatever
\* the flush of the group did: SweepFlush is the only action that takes it
SweepFlushed ==
    /\ sweep.pc = "flush"
    /\ sweep' = AfterFlush(sweep, "")

SpecAggLive ==
    /\ InitAggregator /\ [][NextAggLive]_vars
    /\ WF_vars(Tick)
    /\ WF_vars(\E p \in IngestIds : IngestLocked(p))
    /\ WF_vars(SweepNow \/ SweepCollect)
    /\ WF_sweep(SweepFlushed)

\* SpecAggL2: the aggregator after WithL2Store(store), and the goroutines of flush
WithL2Store ==
    /\ run = NewAgent(Registry, 0, BaseSkill)
    /\ ctxErr = ""
    /\ cbLog = <<>>
    /\ task = NewTask(FALSE)
    /\ InitStore
    /\ InitAgg
    /\ l2Store = TRUE
    /\ InitLib

NextAggL2 == NextAgg \/ L2Append

SpecAggL2 == WithL2Store /\ [][NextAggL2]_vars

-----------------------------------------------------------------------------
(* SpecRouter: providers are added to a Router and ListTools is called *)

InitRouter ==
    /\ run = NewAgent(Registry, 0, BaseSkill)
    /\ ctxErr = ""
    /\ cbLog = <<>>
    /\ task = NewTask(FALSE)
    /\ InitStore
    /\ InitAgg
    /\ NoL2Store
    /\ InitLib

\* AddProvider, between ListTools calls
AddProvider ==
    /\ router.pc = "idle" /\ Len(router.providers) < MaxProviders
    /\ \E tools \in ProviderTools :
          router' = [router EXCEPT !.providers = Append(@, [tools |-> tools])]
    /\ UNCHANGED <<naming, skillMgr, runVars, ctlVars, aggVars>>

\* ListTools is called
ListToolsCall ==
    /\ router.pc = "idle"
    /\ router' = [router EXCEPT !.pc = "range", !.i = 1, !.allTools = <<>>, !.errs = <<>>,
                                !.ret = NoReturn]
    /\ UNCHANGED <<naming, skillMgr, runVars, ctlVars, aggVars>>

\* The next provider is asked for its tools and answers, or fails
ListToolsProvider ==
    /\ router.pc = "range" /\ router.i <= Len(router.providers)
    /\ \E err \in ProviderErrors :
          router' = [router EXCEPT
                        !.allTools = Gather(@, router.providers[router.i].tools, err),
                        !.errs = Append(@, err),
                        !.i = @ + 1]
    /\ UNCHANGED <<naming, skillMgr, runVars, ctlVars, aggVars>>

\* The range is over: return allTools, nil
ListToolsReturn ==
    /\ router.pc = "range" /\ router.i > Len(router.providers)
    /\ router' = [router EXCEPT !.pc = "idle",
                                !.ret = [kind |-> "returned", tools |-> router.allTools,
                                         err |-> ""]]
    /\ UNCHANGED <<naming, skillMgr, runVars, ctlVars, aggVars>>

NextRouter == AddProvider \/ ListToolsCall \/ ListToolsProvider \/ ListToolsReturn

SpecRouter == InitRouter /\ [][NextRouter]_vars

-----------------------------------------------------------------------------
(* SpecName: buildTaskName for an alert name, and sanitizeName of its result *)

InitName ==
    /\ run = NewAgent(Registry, 0, BaseSkill)
    /\ ctxErr = ""
    /\ cbLog = <<>>
    /\ task = NewTask(FALSE)
    /\ InitStore
    /\ InitAgg
    /\ NoL2Store
    /\ router = NewRouter
    /\ skillMgr = NoSkillManager
    /\ \E cs \in AlertNames : naming = [pc |-> "new", alertName |-> cs]

\* buildTaskName(alertName) at the millisecond ms
BuildTaskName ==
    /\ naming.pc = "new"
    /\ \E ms \in 0..MaxTime :
          naming' = [pc |-> "built", alertName |-> naming.alertName,
                     safe |-> sanitizeChars(naming.alertName, maxAlertSegment),
                     segment |-> buildTaskSegment(naming.alertName),
                     ms |-> ms,
                     name |-> Sprintf_alert(buildTaskSegment(naming.alertName), ms)]
    /\ UNCHANGED <<router, skillMgr, runVars, ctlVars, aggVars>>

\* sanitizeName of the sanitized alert name
SanitizeAgain ==
    /\ naming.pc = "built"
    /\ naming' = [pc |-> "again", alertName |-> naming.alertName, safe |-> naming.safe,
                  segment |-> naming.segment, ms |-> naming.ms, name |-> naming.name,
                  again |-> sanitizeChars(naming.safe, maxAlertSegment)]
    /\ UNCHANGED <<router, skillMgr, runVars, ctlVars, aggVars>>

NextName == BuildTaskName \/ SanitizeAgain

SpecName == InitName /\ [][NextName]_vars

-----------------------------------------------------------------------------
(* SpecMatch: skills are registered, then Match is called for one task *)

InitMatch ==
    /\ run = NewAgent(Registry, 0, BaseSkill)
    /\ ctxErr = ""
    /\ cbLog = <<>>
    /\ task = NewTask(FALSE)
    /\ InitStore
    /\ InitAgg
    /\ NoL2Store
    /\ router = NewRouter
    /\ naming = NoNaming
    /\ \E context \in AlertContexts :
          skillMgr = [skills |-> <<>>, context |-> context, results |-> <<>>]

\* NewSkillManager registers a skill it loaded
RegisterSkill ==
    /\ skillMgr.results = <<>>
    /\ \E skill \in SkillFiles :
          /\ skill.name \notin DOMAIN skillMgr.skills
          /\ skillMgr' = [skillMgr EXCEPT !.skills = Register(@, skill)]
    /\ UNCHANGED <<router, naming, runVars, ctlVars, aggVars>>

\* r.SkillManager.Match(&task)
MatchCall ==
    /\ Len(skillMgr.results) < MaxMatches
    /\ \E n \in Match(skillMgr.skills, skillMgr.context) :
          skillMgr' = [skillMgr EXCEPT !.results = Append(@, n)]
    /\ UNCHANGED <<router, naming, runVars, ctlVars, aggVars>>

NextMatch == RegisterSkill \/ MatchCall

SpecMatch == InitMatch /\ [][NextMatch]_vars

-----------------------------------------------------------------------------
(* Properties of one run (SpecRun) *)

\* The tool call Run acts on next and the tool the lookup finds for it (0: none)
CurCall == run.resp.toolCalls[run.idx]
CurTool == FindTool(run.tools, CurCall.name)
ActsOn(safetyLevel) ==
    /\ run.pc = "act"
    /\ CurTool # 0
    /\ run.tools[CurTool].safety = safetyLevel
    /\ run' # run

\* The step numbers and the (toolName, toolArgs) of the tool calls the LLM has
\* requested so far, in request order: the n-th response with tool calls is
\* handled in step n.
RECURSIVE Requests(_, _, _)
Requests(mem, k, n) ==
    IF k > Len(mem) THEN <<>>
    ELSE IF mem[k].type = MessageTypeAssistant /\ Len(mem[k].toolCalls) > 0
    THEN [i \in 1..Len(mem[k].toolCalls) |->
            [step |-> n + 1, toolName |-> mem[k].toolCalls[i].name,
             toolArgs |-> mem[k].toolCalls[i].args]]
         \o Requests(mem, k + 1, n + 1)
    ELSE Requests(mem, k + 1, n)
Requested == Requests(run.memory, 1, 0)

Checkpoint == task.status.checkpoint

\* C3: a run started with approved = false executes no HighRisk tool; acting on a
\* HighRisk tool call it returns WaitingForApproval naming the tool and records no
\* tool output, no finding and no checkpoint for the call; a run started with
\* approved = true executes the call and records its finding.
C3_HighRiskNeedsApproval ==
    /\ [](~run.approved =>
            \A k \in 1..Len(run.executed) : run.executed[k].safety # SafetyLevelHighRisk)
    /\ [][ActsOn(SafetyLevelHighRisk) =>
            IF run.approved
            THEN /\ run'.executed = Append(run.executed, run.tools[CurTool])
                 /\ run'.pc \in {"act", "endstep"}
                 /\ Len(run'.recentFindings) = Len(run.recentFindings) + 1
                 /\ Len(Checkpoint') = Len(Checkpoint) + 1
            ELSE /\ run'.pc = "returned"
                 /\ run'.out = ErrWaitingForApproval(run.tools[CurTool].name)
                 /\ run'.memory = run.memory
                 /\ run'.recentFindings = run.recentFindings
                 /\ run'.executed = run.executed
                 /\ cbLog' = cbLog
                 /\ task' = task]_vars

\* C3 witness: an unapproved run has returned WaitingForApproval for delete_pod after
\* an earlier call of the run was executed and recorded.
C3_Waited ==
    /\ ~run.approved
    /\ run.pc = "returned"
    /\ run.out.kind = "waiting" /\ run.out.toolName = "delete_pod"
    /\ Len(run.executed) >= 1
    /\ Len(Checkpoint) >= 1

\* C4: Execute is never invoked on a Forbidden tool, approved or not; acting on a
\* call of one, Run records the tool output "Error: Tool <name> is forbidden by
\* safety policy." for the call and goes on with the next call or the end of the step.
C4_ForbiddenNeverExecuted ==
    /\ [](\A k \in 1..Len(run.executed) : run.executed[k].safety # SafetyLevelForbidden)
    /\ [][ActsOn(SafetyLevelForbidden) =>
            /\ run'.executed = run.executed
            /\ run'.memory = AddToolOutput(run.memory, CurCall.id,
                    "Error: Tool " \o CurCall.name \o " is forbidden by safety policy.")
            /\ run'.pc = (IF run.idx = Len(run.resp.toolCalls) THEN "endstep" ELSE "act")
            /\ run'.idx = run.idx + 1]_vars

\* C4 witness: an approved run has answered a call of the Forbidden tool with the
\* synthetic error and has gone on to execute a later call.
C4_ForbiddenAnswered ==
    /\ run.approved
    /\ \E k \in 1..Len(run.memory) :
          /\ run.memory[k].type = MessageTypeTool
          /\ run.memory[k].content = "Error: Tool exec_shell is forbidden by safety policy."
          /\ \E j \in (k + 1)..Len(run.memory) :
                run.memory[j].type = MessageTypeTool
                /\ run.memory[j].content = "output of get_pod_logs"

\* C9 as stated: within one run the step numbers of the findings appended to
\* status.checkpoint are strictly increasing in append order.
C9_StepsStrictlyIncreasing ==
    \A k \in 1..(Len(Checkpoint) - 1) : Checkpoint[k].step < Checkpoint[k + 1].step

\* C9 amended: within one run the step numbers of the findings appended to
\* status.checkpoint are non-decreasing in append order; the finding of a tool call
\* carries the number of the step that handles the response requesting it, so the
\* findings of one response share a step number and those of a later response
\* carry a larger one.
C9_StepsNonDecreasing ==
    LET cp == task.status.checkpoint
        req == Requested
    IN  /\ \A k \in 1..(Len(cp) - 1) : cp[k].step <= cp[k + 1].step
        /\ Len(cp) <= Len(req)
        /\ \A k \in 1..Len(cp) :
              /\ cp[k].step = req[k].step
              /\ cp[k].toolName = req[k].toolName
              /\ cp[k].toolArgs = req[k].toolArgs

\* C9 witness: two findings of one response followed by a finding of the next
C9_SharedThenLarger ==
    /\ Len(Checkpoint) >= 3
    /\ Checkpoint[1].step = Checkpoint[2].step
    /\ Checkpoint[2].step < Checkpoint[3].step

\* Requests k, k+1 and k+2 carry identical (toolName, toolArgs)
SameThree(reqs, k) ==
    /\ k + 2 <= Len(reqs)
    /\ \A j \in {k + 1, k + 2} :
          reqs[j].toolName = reqs[k].toolName /\ reqs[j].toolArgs = reqs[k].toolArgs

\* C10: once the third of three consecutive identical tool-call requests has been
\* processed, no further tool call is processed, Run returns the loop-detected
\* error naming the tool, and the phase written for the run is Failed.
C10_LoopAbortsAfterThird ==
    LET req == Requested
    IN  \A k \in 1..(Len(req) - 2) :
            (SameThree(req, k) /\ Len(run.recentFindings) >= k + 2) =>
                /\ Len(run.recentFindings) = k + 2
                /\ run.pc \in {"returned", "done"} =>
                      /\ run.out.kind = "loop"
                      /\ run.out.text =
                            "agent loop detected: tool \"" \o req[k].toolName
                            \o "\" called with identical arguments 3 consecutive times, aborting to prevent infinite token consumption"
                /\ run.pc = "done" => task.status.phase = PhaseFailed

\* C10, the run the claim excludes: three consecutive identical requests were
\* processed, a fourth call after them as well, and the task is Completed.
C10_CompletedAfterThree ==
    /\ run.pc = "done"
    /\ task.status.phase = PhaseCompleted
    /\ LET req == Requested
       IN  \E k \in 1..(Len(req) - 2) :
              SameThree(req, k) /\ Len(run.recentFindings) > k + 2

\* C11: Run makes at most maxSteps LLM calls and returns; when all maxSteps steps
\* have passed without a return (none concluded, failed, required approval or
\* tripped loop detection) it returns "agent exceeded maximum steps (maxSteps)",
\* and only then.
C11_BoundedSteps ==
    /\ [](run.llmCalls <= run.maxSteps /\ run.step <= run.maxSteps)
    /\ []((run.pc \in {"returned", "done"} /\ run.step = run.maxSteps) =>
            /\ run.out.kind = "maxSteps"
            /\ run.out.text = "agent exceeded maximum steps (" \o ToString(run.maxSteps) \o ")"
            /\ run.llmCalls = run.maxSteps)
    /\ []((run.pc \in {"returned", "done"} /\ run.out.kind = "maxSteps") =>
            run.step = run.maxSteps)
    /\ <>(run.pc = "done")

\* C11 witness: a run with maxSteps = 2 has made two LLM calls, neither step
\* returned, and the run ended with the step-budget error.
C11_Exceeded ==
    /\ run.pc = "done"
    /\ run.maxSteps = 2 /\ run.llmCalls = 2
    /\ Len(run.recentFindings) >= 2
    /\ run.out.text = "agent exceeded maximum steps (2)"

\* The goroutine writes the outcome of the run that has returned
WritesRunOutcome == run.pc = "returned" /\ run'.pc = "done"

\* The error texts Run returns, by the way the run ended
ErrorTexts ==
    [ llm |-> {"failed to chat with LLM: " \o LLMError.err},
      maxSteps |-> {"agent exceeded maximum steps (" \o ToString(m) \o ")" : m \in 0..MaxSteps},
      loop |-> {"agent loop detected: tool \"" \o c.name
                \o "\" called with identical arguments 3 consecutive times, aborting to prevent infinite token consumption" :
                c \in CallSet},
      ctx |-> CtxErrors ]

\* C19: the status written when Run has returned is determined by Run's outcome:
\* a result gives phase Completed and the result's rootCause and suggestion as the
\* report; an error other than WaitingForApproval (LLM failure, step budget,
\* loop detected, context done) gives phase Failed and the report {rootCause:
\* "Agent execution failed", suggestion: the error text}.
C19_PhaseFollowsOutcome ==
    [][WritesRunOutcome =>
          /\ run.out.kind \in {"result", "waiting", "llm", "maxSteps", "loop", "ctx"}
          /\ run.out.kind = "result" =>
                /\ task'.status.phase = PhaseCompleted
                /\ task'.status.report =
                      <<[rootCause |-> extractRootCause(run.resp.content).rootCause,
                         suggestion |-> extractRootCause(run.resp.content).suggestion]>>
          /\ run.out.kind \in DOMAIN ErrorTexts =>
                /\ run.out.text \in ErrorTexts[run.out.kind]
                /\ task'.status.phase = PhaseFailed
                /\ task'.status.report =
                      <<[rootCause |-> "Agent execution failed", suggestion |-> run.out.text]>>]_vars

\* C19 witness: a run whose context passed its deadline after a finding was
\* recorded has been written as Failed with the deadline error as suggestion.
C19_DeadlineFailed ==
    /\ run.pc = "done"
    /\ Len(task.status.checkpoint) >= 1
    /\ task.status.phase = PhaseFailed
    /\ task.status.report = <<[rootCause |-> "Agent execution failed",
                               suggestion |-> "context deadline exceeded"]>>

\* Run handles the tool call it is at; the tools of the name the call gives
Acts == run.pc = "act" /\ run' # run
Named == {k \in 1..Len(run.tools) : run.tools[k].name = CurCall.name}

\* The tool-output entry, the finding and the history line of the call Run is at,
\* for the output text
Observed(text) ==
    /\ run'.memory = Append(run.memory,
            [type |-> MessageTypeTool, content |-> text, toolCalls |-> <<>>,
             toolCallID |-> CurCall.id])
    /\ Len(cbLog') = Len(cbLog) + 1
    /\ cbLog'[Len(cbLog')].finding =
            <<[step |-> run.step + 1, toolName |-> CurCall.name, toolArgs |-> CurCall.args,
               summary |-> text]>>
    /\ Checkpoint' = Checkpoint \o cbLog'[Len(cbLog')].finding
    /\ run'.out = NoOutcome
    /\ run'.step = run.step
    /\ IF run.idx < Len(run.resp.toolCalls)
       THEN run'.pc = "act" /\ run'.idx = run.idx + 1
       ELSE run'.pc = "endstep"

\* C26: a tool call that names no tool of the agent, or whose Execute returns an
\* error, does not end the run: Execute is invoked not at all for the first and
\* once for the second, "Error: Tool <name> not found" or "Error executing tool:
\* <err>" becomes the tool output of the call in memory, a finding with it is
\* emitted, and Run goes on to the next call of the response or to the end of
\* the step.
C26_ToolErrorsFedBack ==
    [][Acts =>
        /\ Named = {} =>
              /\ run'.executed = run.executed
              /\ Observed("Error: Tool " \o CurCall.name \o " not found")
        /\ \A k \in Named :
              (/\ run.tools[k].safety \in {SafetyLevelReadOnly, SafetyLevelLowRisk}
               /\ Execute(CurCall.name, CurCall.args).err # "") =>
                    /\ run'.executed = Append(run.executed, run.tools[k])
                    /\ Observed("Error executing tool: "
                                \o Execute(CurCall.name, CurCall.args).err)]_vars

\* C26 witness: a run has been told that get_metrics was not found and that an
\* execution failed, and is about to ask the LLM again.
C26_ReplansAfterErrors ==
    /\ run.pc = "chat" /\ run.step >= 1
    /\ \E i, j \in 1..Len(run.memory) :
          /\ run.memory[i].content = "Error: Tool get_metrics not found"
          /\ run.memory[j].content = "Error executing tool: connection refused"

\* The Chat calls of the run that returned a response, and whether it concluded
Answered == run.llmCalls - (IF run.out.kind = "llm" THEN 1 ELSE 0)
Concluded == IF run.out.kind = "result" THEN 1 ELSE 0

\* The callbacks the run owes so far, in order: for every answered step its Think,
\* then an Act for each of its tool calls handled so far, in request order, then
\* the Conclude of a concluding step.  reqs are the tool calls requested, done how
\* many of them were handled; n is the number of the handled call among all of the
\* run.
CallbacksOfStep(i, reqs, done) ==
    <<[kind |-> "Think", step |-> i, n |-> 0]>>
    \o [k \in 1..Cardinality({n \in 1..done : reqs[n].step = i}) |->
           [kind |-> "Act", step |-> i,
            n |-> k + Cardinality({n \in 1..done : reqs[n].step < i})]]
    \o (IF i = Answered /\ Concluded = 1
        THEN <<[kind |-> "Conclude", step |-> i, n |-> 0]>> ELSE <<>>)
RECURSIVE CallbacksUpTo(_, _, _)
CallbacksUpTo(i, reqs, done) ==
    IF i = 0 THEN <<>> ELSE CallbacksUpTo(i - 1, reqs, done) \o CallbacksOfStep(i, reqs, done)

\* The callback cb is the one owed as e
IsCallback(cb, e, reqs) ==
    LET i == ToString(e.step)
    IN  IF e.kind = "Think"
        THEN /\ cb.finding = <<>>
             /\ \E c \in {ContentMarked, ContentPlain, "Thinking..."} :
                   cb.history = "Step " \o i \o " (Think): " \o c
        ELSE IF e.kind = "Conclude"
        THEN /\ cb.finding = <<>>
             /\ \E c \in {ContentMarked, ContentPlain} :
                   cb.history = "Step " \o i \o " (Conclude): RootCause: "
                                \o extractRootCause(c).rootCause \o " | Suggestion: "
                                \o extractRootCause(c).suggestion
        ELSE /\ cb.finding = <<run.recentFindings[e.n]>>
             /\ run.recentFindings[e.n].step = e.step
             /\ run.recentFindings[e.n].toolName = reqs[e.n].toolName
             /\ run.recentFindings[e.n].toolArgs = reqs[e.n].toolArgs
             /\ cb.history = "Step " \o i \o " (Act): " \o reqs[e.n].toolName \o "("
                              \o reqs[e.n].toolArgs \o ") -> "
                              \o run.recentFindings[e.n].summary

\* C27 as stated: the callbacks number the Chat calls made, plus the tool calls
\* handled, plus one for a conclusion.
C27_CallbackPerLLMCall ==
    Len(cbLog) = run.llmCalls + Len(run.recentFindings) + Concluded

\* C27, amended: the callbacks of a run are, in order, for each step whose Chat call
\* returned a response one Think with no finding, then one Act with the finding of
\* each tool call of the step handled so far, in request order and made in the step
\* that executed the tool; a conclusion adds one Conclude as the last callback of
\* the run.  Their number is the answered Chat calls, plus the tool calls handled,
\* plus one for a conclusion.
C27_CallbackOrder ==
    /\ [](LET reqs == Requested
              owed == CallbacksUpTo(Answered, reqs, Len(run.recentFindings))
          IN  /\ Len(run.recentFindings) <= Len(reqs)
              /\ Len(cbLog) = Answered + Len(run.recentFindings) + Concluded
              /\ Len(cbLog) = Len(owed)
              /\ \A j \in 1..Len(cbLog) : IsCallback(cbLog[j], owed[j], reqs))
    /\ [][/\ Len(cbLog') <= Len(cbLog) + 1
          /\ SubSeq(cbLog', 1, Len(cbLog)) = cbLog
          /\ run.pc \in {"returned", "done"} => cbLog' = cbLog
          /\ (Len(cbLog') > Len(cbLog) /\ cbLog'[Len(cbLog')].finding # <<>>) =>
                /\ Acts
                /\ CurTool # 0 /\ ~IsForbidden(run.tools[CurTool].safety) =>
                      run'.executed = Append(run.executed, run.tools[CurTool])]_vars

\* C27 witness: a run of two steps has made Think, Act, Act, Think, Conclude
\* callbacks.
C27_TwoStepsConcluded ==
    /\ run.pc = "done" /\ run.out.kind = "result"
    /\ Len(cbLog) = 5
    /\ cbLog[2].finding # <<>> /\ cbLog[3].finding # <<>>
    /\ cbLog[4].history = "Step 2 (Think): " \o ContentMarked
    /\ cbLog[5].history = "Step 2 (Conclude): RootCause: memory limit exceeded | Suggestion: raise the limit"

\* The names skill.AllowedTools lists
Allowed == {run.skill.allowedTools[k] : k \in 1..Len(run.skill.allowedTools)}

\* C28: with a non-empty allowedTools, Execute is invoked only on tools the list
\* names, and a call of any other tool, registered or not and of any safety level,
\* is answered "Error: Tool <name> not found": it is not executed, the run does not
\* wait for an approval and the tool is not reported forbidden.  With an empty
\* allowedTools the agent has every registered tool.
C28_WhitelistedToolsOnly ==
    /\ [](IF Allowed = {}
          THEN run.tools = Registry
          ELSE /\ \A k \in 1..Len(run.tools) : run.tools[k].name \in Allowed
               /\ \A k \in 1..Len(run.executed) : run.executed[k].name \in Allowed
               /\ run.out.kind = "waiting" => run.out.toolName \in Allowed)
    /\ [][(Acts /\ Allowed # {} /\ CurCall.name \notin Allowed) =>
            /\ run'.executed = run.executed
            /\ Observed("Error: Tool " \o CurCall.name \o " not found")]_vars

\* C28 witness: a run with the log skill has executed get_pod_logs and answered the
\* calls of the registered delete_pod and exec_shell with "not found".
C28_FilteredCallsNotFound ==
    /\ Allowed # {} /\ ~run.approved
    /\ \E k \in 1..Len(run.executed) : run.executed[k].name = "get_pod_logs"
    /\ \E i, j \in 1..Len(run.memory) :
          /\ run.memory[i].content = "Error: Tool delete_pod not found"
          /\ run.memory[j].content = "Error: Tool exec_shell not found"

\* The Chat call of the step in progress fails and Run returns
ChatFails == run.pc = "chat" /\ run'.pc = "returned"

\* C34: when the LLM call of a step fails Run returns the error "failed to chat
\* with LLM: <error>" at once: the step hands nothing to onStep, appends nothing to
\* memory and executes no tool, neither at the failure nor after it, and the
\* goroutine's write makes the task Failed with the error text as
\* report.suggestion.
C34_LLMFailureEndsRun ==
    /\ [][ChatFails =>
            /\ run'.out = ErrOther("llm", "failed to chat with LLM: " \o LLMError.err)
            /\ run'.cb = NoCb
            /\ task' = task]_vars
    /\ [][(ChatFails \/ run.out.kind = "llm") =>
            /\ cbLog' = cbLog
            /\ run'.memory = run.memory
            /\ run'.executed = run.executed
            /\ task'.status.checkpoint = task.status.checkpoint
            /\ task'.status.history = task.status.history]_vars
    /\ []((run.pc = "done" /\ run.out.kind = "llm") =>
            /\ task.status.phase = PhaseFailed
            /\ task.status.report = <<[rootCause |-> "Agent execution failed",
                                       suggestion |-> run.out.text]>>)

\* C34 witness: the LLM answered the first step with a tool call and failed in the
\* second; the task is Failed with the one finding of step 1.
C34_FailedInSecondStep ==
    /\ run.pc = "done" /\ run.out.kind = "llm"
    /\ run.step = 1 /\ run.llmCalls = 2
    /\ Len(task.status.checkpoint) = 1
    /\ task.status.phase = PhaseFailed
    /\ task.status.report[1].suggestion = "failed to chat with LLM: api rate limit exceeded"

\* Run comes to a loop head: at its entry, or at the end of a step in which no loop
\* was detected
AtLoopHead ==
    /\ run.pc \in {"new", "endstep"} /\ run'.pc # run.pc
    /\ ~(run.pc = "endstep" /\ detectLoop(run.recentFindings, LoopWindow))

\* The step the loop head would start
NextStep == IF run.pc = "new" THEN 0 ELSE run.step + 1

\* C35: a loop head that finds the context done starts no step: Run returns there,
\* with the context's error when the step budget is not used up, without calling
\* the LLM; a step is entered only by a loop head that found the context not done,
\* and once Run has returned the context's error no LLM call and no tool execution
\* follows.
C35_NoStepAfterCancel ==
    /\ [][(AtLoopHead /\ ctxErr # "") =>
            /\ run'.pc = "returned"
            /\ NextStep < run.maxSteps => run'.out = ErrOther("ctx", ctxErr)
            /\ run'.llmCalls = run.llmCalls
            /\ run'.executed = run.executed]_vars
    /\ [][(run.pc # "chat" /\ run'.pc = "chat") => (AtLoopHead /\ ctxErr = "")]_vars
    /\ [][run.out.kind = "ctx" =>
            /\ run'.pc \in {"returned", "done"}
            /\ run'.llmCalls = run.llmCalls
            /\ run'.executed = run.executed]_vars

\* C35 witness: the context was canceled during the first step, whose tool was
\* executed; the second loop head returned the error, with one LLM call made.
C35_CanceledAfterFirstStep ==
    /\ run.pc = "done" /\ run.out = ErrOther("ctx", "context canceled")
    /\ run.maxSteps = 2 /\ run.step = 1
    /\ run.llmCalls = 1 /\ Len(run.executed) >= 1

\* Findings k-2, k-1 and k of fs name the same tool with the same arguments
SameCall(fs, k) ==
    /\ k >= 3
    /\ \A j \in {k - 2, k - 1} :
          fs[j].toolName = fs[k].toolName /\ fs[j].toolArgs = fs[k].toolArgs

\* C36: Run returns the loop-detected error only when the last three findings of
\* the run name the same tool with the same arguments: never with fewer than three
\* findings, never when the last finding differs from one of the two before it;
\* the findings inspected are all the findings of the run, in the order emitted,
\* whatever steps they belong to.
C36_LoopOnlyOnThreeIdentical ==
    /\ [](run.recentFindings = task.status.checkpoint)
    /\ [](run.out.kind = "loop" => SameCall(run.recentFindings, Len(run.recentFindings)))
    /\ [][(run.pc = "endstep" /\ run'.pc # "endstep"
            /\ ~SameCall(run.recentFindings, Len(run.recentFindings)))
           => run'.out.kind # "loop"]_vars

\* C36 witness: the run was aborted for three identical calls of which the first
\* was made in step 1 and the other two in step 2.
C36_LoopAcrossSteps ==
    /\ run.pc = "done" /\ run.out.kind = "loop"
    /\ Len(run.recentFindings) = 3
    /\ run.recentFindings[1].step = 1 /\ run.recentFindings[2].step = 2

-----------------------------------------------------------------------------
(* Properties of the reconciler and its goroutines (Spec, SpecQueue, SpecQueueGone) *)

Terminal == {PhaseCompleted, PhaseFailed}

\* Goroutine i performs its status write of Run's outcome and the write succeeds
WritesOutcome(i) ==
    /\ agents[i].g = "finalUpdate"
    /\ agents'[i].g = "exit"
    /\ UpdateOK(task, agents[i].fresh)

\* C1: at every moment at most one agent goroutine of the task is live (spawned
\* and not yet returned).
C1_AtMostOneLive == Cardinality({i \in AgentIds : Live(i)}) <= 1

\* C2: once status.phase is Completed or Failed, no step changes the task's status.
C2_TerminalImmutable ==
    [][(task.state # "gone" /\ task.status.phase \in Terminal) =>
            task'.status = task.status]_vars

\* C5: a goroutine whose Run returned the error of its canceled context changes
\* neither status.phase nor status.report when it exits.
C5_CanceledWritesNoOutcome ==
    [][\A i \in AgentIds :
            (WritesOutcome(i) /\ agents[i].ctx # "" /\ agents[i].a.out.kind = "ctx") =>
                /\ task'.status.phase = task.status.phase
                /\ task'.status.report = task.status.report]_vars

\* Nothing is left to run: no Reconcile call in progress, the key not queued, no
\* goroutine live.
Quiescent ==
    /\ rec.pc = "idle"
    /\ ~dirty
    /\ \A i \in AgentIds : ~Live(i)

\* C6: a stored, undeleted task with spec.approved = true in a non-terminal phase
\* is never left with nothing to run: while its phase is not terminal a Reconcile
\* call is queued or in progress, or an agent goroutine is live.
C6_NonTerminalKeepsRunning ==
    (task.state = "present" /\ task.approved /\ task.status.phase \notin Terminal)
        => ~Quiescent

\* C7: every status write that sets phase to WaitingApproval is applied to a task
\* whose phase is Running, and every step from WaitingApproval to Running is the
\* write of a Reconcile call that read spec.approved = true.
C7_WaitingApprovalTransitions ==
    [][/\ \A i \in AgentIds :
            (WritesOutcome(i) /\ agents[i].a.out.kind = "waiting") =>
                task.status.phase = PhaseRunning
       /\ (task.status.phase = PhaseWaitingApproval /\ task'.status.phase = PhaseRunning) =>
                (rec.pc = "got" /\ rec.task.approved /\ rec'.pc = "idle")]_vars

\* C8: status.report is unset in every phase other than Completed and Failed, and
\* a step that changes status.report starts from an unset report and moves the
\* phase to Completed or Failed.
C8_ReportOnlyAtTerminal ==
    /\ [](task.status.phase \notin Terminal => task.status.report = <<>>)
    /\ [][task'.status.report # task.status.report =>
            /\ task.status.report = <<>>
            /\ task.status.phase \notin Terminal
            /\ task'.status.phase \in Terminal]_vars

\* The agent whose cancel handle is stored has a canceled context, if it is live
ActiveCanceled == (Loaded(active) /\ Live(active)) => agents'[active].ctx # ""

\* C17: a Reconcile call that finds the task deleted, either fetched with a
\* deletion timestamp or not found, returns with the task's active-agent entry
\* canceled and removed.
C17_DeletedTaskEntryCanceled ==
    [][/\ (rec.pc = "got" /\ rec.task.state = "deleting" /\ rec'.pc = "idle") =>
              (ActiveCanceled /\ ~Loaded(active'))
       /\ (rec.pc = "idle" /\ dirty /\ ~dirty' /\ task.state = "gone") =>
              (ActiveCanceled /\ ~Loaded(active'))]_vars

\* Agent i has executed a HighRisk tool
ExecutedHighRisk(i) ==
    /\ agents[i].g \notin {"none", "dead", "skillGet", "skillUpdate"}
    /\ \E k \in 1..Len(agents[i].a.executed) :
          agents[i].a.executed[k].safety = SafetyLevelHighRisk

\* C18: the successful status write of a run that ended with WaitingForApproval
\* sets phase WaitingApproval and the message "Tool <toolName> requires approval."
\* and changes neither report nor checkpoint; the goroutine's exit leaves the
\* active-agent map without an entry; and a HighRisk tool is executed only by an
\* agent that was started with spec.approved = true, never by the agent whose run
\* ended with WaitingForApproval.
C18_WaitingForApprovalOutcome ==
    /\ [][\A i \in AgentIds :
            /\ (WritesOutcome(i) /\ agents[i].a.out.kind = "waiting") =>
                  /\ task'.status.phase = PhaseWaitingApproval
                  /\ task'.status.message =
                        "Tool " \o agents[i].a.out.toolName \o " requires approval."
                  /\ task'.status.report = task.status.report
                  /\ task'.status.checkpoint = task.status.checkpoint
            /\ (agents[i].g = "exit" /\ agents'[i].g = "dead") => ~Loaded(active')]_vars
    /\ [](\A i \in AgentIds :
            ExecutedHighRisk(i) =>
                /\ agents[i].a.approved
                /\ task.approved
                /\ agents[i].a.out.kind # "waiting")

\* C18 witness: the first agent's run ended with WaitingForApproval for delete_pod
\* and its write made the task WaitingApproval without a report; after the
\* approval a later agent has executed the tool.
C18_ApprovedAgentExecuted ==
    /\ agents[1].g = "dead"
    /\ task.status.message = "Tool delete_pod requires approval."
    /\ task.status.report = <<>>
    /\ \E i \in AgentIds : i > 1 /\ ExecutedHighRisk(i)

\* A Reconcile call that has fetched the task takes its next step
RecActs == rec.pc = "got" /\ rec'.pc # "got"

\* The step writes no status and starts no goroutine
NoWriteNoSpawn ==
    /\ task' = task
    /\ nAgents' = nAgents
    /\ \A i \in AgentIds : agents[i].g = "none" => agents'[i].g = "none"
    /\ rec'.pc = "idle"

\* C31: a Reconcile call that fetched the task in phase Completed or Failed, or
\* (the task not being deleted) in phase Running with an active-agent entry
\* present, or in phase WaitingApproval with spec.approved = false, writes no status
\* and spawns no agent; in the last two cases it leaves the active-agent map and
\* the stored cancel handle as they are.
C31_NoOpReconcile ==
    [][RecActs =>
        /\ rec.task.phase \in Terminal => NoWriteNoSpawn
        /\ (rec.task.state = "present"
              /\ \/ rec.task.phase = PhaseRunning /\ Loaded(active)
                 \/ rec.task.phase = PhaseWaitingApproval /\ ~rec.task.approved)
           => (NoWriteNoSpawn /\ active' = active /\ agents' = agents)]_vars

\* C31 witness: the task waits for an approval not given, the Reconcile call queued
\* for its last change has returned, and nothing was started or written since.
C31_AwaitingApproval ==
    /\ Quiescent
    /\ task.state = "present" /\ ~task.approved
    /\ task.status.phase = PhaseWaitingApproval
    /\ active = 0

\* Goroutine i returns: its deferred ActiveAgents.Delete runs
Exits(i) == agents[i].g = "exit" /\ agents'[i].g = "dead"

\* C32: whenever no agent goroutine of the task is live and no Reconcile call is
\* in progress the active-agent map holds no entry for the task, and the exit of a
\* goroutine never removes the entry stored for a goroutine spawned after it.
C32_EntryOwnedByLiveAgent ==
    /\ []((rec.pc = "idle" /\ \A i \in AgentIds : ~Live(i)) => ~Loaded(active))
    /\ [][\A i \in AgentIds :
            (Exits(i) /\ Loaded(active) /\ active > i) => active' = active]_vars

\* Reconcile's write of phase Running for a Pending task fails
ToRunningFails == rec.pc = "toRunning" /\ rec'.pc = "idle" /\ ~UpdateOK(task, rec.fresh)

\* C33: when the status write Pending -> Running fails, Reconcile returns the error
\* (the key is queued again), starts no goroutine and removes the entry it stored:
\* the task is still Pending and the map holds no entry.
C33_FailedStartRemovesEntry ==
    [][ToRunningFails =>
        /\ task' = task
        /\ task.state # "gone" => task.status.phase = PhasePending
        /\ agents' = agents /\ nAgents' = nAgents
        /\ ~Loaded(active')
        /\ dirty']_vars

\* C33 witness: the cancel handle is stored for a Pending task, and the task was
\* written since Reconcile fetched it: the write of Running is going to conflict.
C33_ConflictAhead ==
    /\ rec.pc = "toRunning" /\ ~rec.fresh
    /\ Loaded(active) /\ active = nAgents + 1
    /\ task.status.phase = PhasePending

\* A memory entry of the user role
UserEntry(content) ==
    [type |-> MessageTypeUser, content |-> content, toolCalls |-> <<>>, toolCallID |-> ""]

\* Reconcile, holding a task it read as Running and finding no entry, returns
Resumes ==
    /\ rec.pc = "got" /\ rec'.pc = "idle"
    /\ rec.task.state = "present" /\ rec.task.phase = PhaseRunning
    /\ ~Loaded(active)

\* C20: a Reconcile of a task read as Running that finds no active-agent entry
\* stores an entry and starts exactly one goroutine without writing the task, and
\* the agent of that goroutine enters Run with, in this order, the system-prompt
\* entry, one entry listing every finding of the checkpoint Reconcile read as
\* "- Step N [tool]: summary" (when there is one), and the goal entry.
C20_ResumeRestoresCheckpoint ==
    /\ [][Resumes =>
            /\ nAgents' = nAgents + 1
            /\ active' = nAgents'
            /\ task' = task
            /\ agents'[nAgents'].g = "skillGet"
            /\ agents'[nAgents'].task.checkpoint = rec.task.checkpoint
            /\ rec.fresh => rec.task.checkpoint = task.status.checkpoint
            /\ \A i \in AgentIds \ {nAgents'} : agents'[i] = agents[i]]_vars
    /\ [][\A i \in AgentIds :
            (agents[i].g = "skillUpdate" /\ agents'[i].g = "run") =>
                LET cp == agents[i].task.checkpoint
                    mem == agents'[i].a.memory
                IN  /\ Len(mem) = (IF cp = <<>> THEN 2 ELSE 3)
                    /\ mem[1] = UserEntry("SYSTEM INSTRUCTION: " \o BaseSkill.systemPrompt)
                    /\ mem[Len(mem)] = UserEntry(GoalText(TaskGoal))
                    /\ cp # <<>> =>
                          /\ mem[2].type = MessageTypeUser
                          /\ LET lines == [k \in 1..Len(cp) |->
                                               "- Step " \o ToString(cp[k].step) \o " ["
                                               \o cp[k].toolName \o "]: " \o cp[k].summary \o "\n"]
                             IN  mem[2].content =
                                      "Previous diagnosis findings (restored from checkpoint):\n"
                                      \o Join(lines)]_vars

\* C20 witness: the agent of a resumed task runs with the finding of the earlier
\* run restored between the system prompt and the goal.
C20_ResumedWithFinding ==
    \E i \in AgentIds :
        /\ i > 1 /\ agents[i].g = "run"
        /\ Len(agents[i].a.memory) >= 3
        /\ agents[i].a.memory[2].content =
              "Previous diagnosis findings (restored from checkpoint):\n- Step 1 [get_pod_logs]: output of get_pod_logs\n"
        /\ agents[i].a.memory[3].content = GoalText(TaskGoal)

\* s is a prefix of t
IsPrefix(s, t) == Len(s) <= Len(t) /\ SubSeq(t, 1, Len(s)) = s

\* C21: every write of the task leaves the checkpoint it had as a prefix of the
\* checkpoint it has afterwards: findings are appended, and never removed,
\* replaced or reordered, within a run, across a resume and across an approval.
C21_CheckpointAppendOnly ==
    [][task.state # "gone" /\ task'.state # "gone" =>
          IsPrefix(task.status.checkpoint, task'.status.checkpoint)]_vars

\* C21 witness: a second goroutine of the task has appended its finding behind the
\* finding of the first.
C21_AppendedAfterResume ==
    \E i \in AgentIds :
        /\ i >= 2 /\ agents[i].g = "run" /\ agents[i].a.cb = NoCb
        /\ Len(agents[i].a.memory) >= 3
        /\ agents[i].a.memory[3].content = GoalText(TaskGoal)
        /\ Len(agents[i].a.recentFindings) = 1
        /\ Len(task.status.checkpoint) >= 2
        /\ task.status.checkpoint[Len(task.status.checkpoint)] = agents[i].a.recentFindings[1]

\* Goroutine i enters Run
EntersRun(i) == agents[i].g = "skillUpdate" /\ agents'[i].g = "run"

\* C37: every run of the task, the first one and every resume, starts as a new
\* agent's run does, with the step counter at 0, no finding recorded and the whole
\* of policy.maxSteps to use, and differs from it only by the memory entry of the
\* restored findings; its findings are numbered from 1 and it is ended for its
\* steps only when it has used maxSteps of its own, however many findings
\* status.checkpoint holds.
C37_ResumeStartsAfresh ==
    /\ [][\A i \in AgentIds : EntersRun(i) =>
            LET ag == agents[i]
                fresh == RunBegin(NewAgent(Registry, TaskMaxSteps, BaseSkill), TaskGoal,
                                  ag.task.approved, ag.ctx)
                mem == agents'[i].a.memory
            IN  /\ agents'[i].a = [fresh EXCEPT !.memory = mem]
                /\ Len(mem) = Len(fresh.memory) + (IF ag.task.checkpoint = <<>> THEN 0 ELSE 1)
                /\ mem[1] = fresh.memory[1]
                /\ mem[Len(mem)] = fresh.memory[Len(fresh.memory)]]_vars
    /\ [](\A i \in AgentIds : Live(i) =>
            LET a == agents[i].a
            IN  /\ a.maxSteps = TaskMaxSteps
                /\ a.step <= a.maxSteps
                /\ a.out.kind = "maxSteps" => a.step = a.maxSteps
                /\ a.recentFindings # <<>> => a.recentFindings[1].step = 1
                /\ \A k \in 1..Len(a.recentFindings) :
                      a.recentFindings[k].step \in 1..a.maxSteps)

\* C37 witness: a resumed run on a checkpoint of at least maxSteps findings has
\* made a finding of its own in step 1, appended to the checkpoint, and has ended
\* with its own budget used up.
C37_ResumedRunUsedItsBudget ==
    \E i \in AgentIds :
        /\ i > 1 /\ agents[i].g = "finalUpdate"
        /\ agents[i].a.out.kind = "maxSteps"
        /\ Len(agents[i].a.recentFindings) = 1
        /\ agents[i].a.recentFindings[1].step = 1
        /\ Len(task.status.checkpoint) > TaskMaxSteps
        /\ task.status.checkpoint[Len(task.status.checkpoint)] = agents[i].a.recentFindings[1]

\* The elements of s occur in t, in the order of s
RECURSIVE IsSubseq(_, _)
IsSubseq(s, t) ==
    IF s = <<>> THEN TRUE
    ELSE IF t = <<>> THEN FALSE
    ELSE IF Head(s) = Head(t) THEN IsSubseq(Tail(s), Tail(t))
    ELSE IsSubseq(s, Tail(t))

\* Run has returned in goroutine i and its last callback is over
RunEnded(i) == agents[i].g \in {"finalUpdate", "exit"} \/ (agents[i].g = "run" /\ RunDone(agents[i].a))

\* C40: when a run ends, every finding it handed to onStep is in status.checkpoint,
\* in the order emitted, also when the task was written by someone else between
\* the callback's read of the task and its status write.
C40_FindingsCheckpointed ==
    \A i \in AgentIds :
        (RunEnded(i) /\ task.state # "gone") =>
            IsSubseq(agents[i].a.recentFindings, task.status.checkpoint)

-----------------------------------------------------------------------------
(* Properties of the aggregator (SpecAgg) *)

\* Ingest call p performs its update under the lock
Ingests(p) == ingest[p].pc = "lock" /\ ingest'[p].pc = "idle"

\* The ingests counted by the groups of a sequence and of the map
RECURSIVE CountSeq(_)
CountSeq(gs) == IF gs = <<>> THEN 0 ELSE Head(gs).count + CountSeq(Tail(gs))
RECURSIVE CountMap(_, _)
CountMap(gs, keys) ==
    IF keys = {} THEN 0
    ELSE LET k == CHOOSE x \in keys : TRUE IN gs[k].count + CountMap(gs, keys \ {k})

\* The groups sweep has removed from the map and not yet flushed
Pending == IF sweep.pc = "flush" THEN sweep.expired ELSE <<>>

\* Sweep removes its expired groups from the map; flush handles the next of them
Collects == sweep.pc = "lock" /\ sweep'.pc # "lock"
Flushes == sweep.pc = "flush" /\ sweep' # sweep

\* C12: the ingests of a key gather in one group until a sweep finds the key silent
\* for longer than windowSize, and that group yields exactly one task.  Every
\* completed ingest is counted by exactly one group, which is in the map, removed
\* and about to be flushed, or flushed; a sweep removes exactly the groups whose
\* lastSeen is more than windowSize before the clock reading of the sweep and
\* hands each of them to flush once; a flush takes one removed group and, when
\* the store accepts the creation, stores exactly one task for it.
C12_OneTaskPerGroup ==
    /\ [](CountMap(groups, DOMAIN groups) + CountSeq(Pending) + CountSeq(flushLog)
            = nIngests - Cardinality({p \in IngestIds : ingest[p].pc = "lock"}))
    /\ [][Collects =>
            /\ \A k \in DOMAIN groups :
                  (k \in DOMAIN groups') = ~(sweep.now - groups[k].lastSeen > WindowSize)
            /\ Len(Pending') = Cardinality(DOMAIN groups \ DOMAIN groups')
            /\ \A k \in DOMAIN groups \ DOMAIN groups' :
                  \E i \in 1..Len(Pending') : Pending'[i] = groups[k]]_vars
    /\ [][Flushes =>
            LET group == Head(sweep.expired)
                accepted == /\ flushLog'[Len(flushLog')].err = ""
                            /\ \A t \in tasks : t.name # buildTaskName(group.alertName, clock)
            IN  /\ Pending' = Tail(sweep.expired)
                /\ Len(flushLog') = Len(flushLog) + 1
                /\ flushLog'[Len(flushLog')].key = group.key
                /\ flushLog'[Len(flushLog')].count = group.count
                /\ IF accepted
                   THEN /\ Cardinality(tasks') = Cardinality(tasks) + 1
                        /\ \E t \in tasks' \ tasks : t.alertContext.name = group.alertName
                   ELSE tasks' = tasks]_vars

\* C12 witness: three ingests of one key were flushed as one group, one task is
\* stored and the map is empty.
C12_BurstFlushedOnce ==
    /\ nIngests = 3
    /\ Len(flushLog) = 1 /\ flushLog[1].count = 3 /\ flushLog[1].err = ""
    /\ Cardinality(tasks) = 1
    /\ DOMAIN groups = {}
    /\ sweep.pc = "idle"

\* C13: the lastSeen of a group never moves backwards while the group is in the map,
\* so that it is the clock reading of the most recent ingest; and a sweep removes a
\* group only when the clock is more than windowSize past the group's lastSeen.
C13_WindowAnchoredOnLatestIngest ==
    [][/\ \A k \in DOMAIN groups \cap DOMAIN groups' :
              groups'[k].lastSeen >= groups[k].lastSeen
       /\ \A k \in DOMAIN groups \ DOMAIN groups' :
              clock - groups[k].lastSeen > WindowSize]_vars

\* C14: as long as the task store does not fail, the number of tasks stored equals
\* the number of groups flushed.
C14_TaskPerFlushedGroup ==
    Cardinality(tasks) = Cardinality({i \in 1..Len(flushLog) : flushLog[i].err = ""})

\* The left-to-right override union of two label maps
Override(earlier, later) ==
    [k \in DOMAIN earlier \cup DOMAIN later |->
        IF k \in DOMAIN later THEN later[k] ELSE earlier[k]]

\* C15: every ingest leaves its group with the override union of the group's labels
\* so far and its own, no other step changes the labels of a group, and the task
\* created for a flushed group carries the group's labels.
C15_LabelsLastWriterWins ==
    [][/\ \A p \in IngestIds : Ingests(p) =>
              LET k == ingest[p].key
              IN  groups'[k].mergedLabels =
                      Override(IF k \in DOMAIN groups THEN groups[k].mergedLabels ELSE <<>>,
                               ingest[p].labels)
       /\ (\A p \in IngestIds : ~Ingests(p)) =>
              \A k \in DOMAIN groups \cap DOMAIN groups' :
                  groups'[k].mergedLabels = groups[k].mergedLabels
       /\ sweep.pc = "lock" =>
              \A i \in 1..Len(Pending') :
                  Pending'[i].mergedLabels = groups[Pending'[i].key].mergedLabels
       /\ \A t \in tasks' \ tasks :
              t.alertContext.labels = Head(sweep.expired).mergedLabels]_vars

\* C15 witness: the task of a group of two ingests carries the severity of the later
\* one and the instance only the earlier one had.
C15_MergedTask ==
    \E t \in tasks :
        /\ DOMAIN t.alertContext.labels =
              {"alertname", "namespace", "pod", "severity", "instance"}
        /\ t.alertContext.labels["severity"] = "critical"
        /\ t.alertContext.labels["instance"] = "10.0.0.1"

\* The labels a group key is built from
KeyLabels == {"alertname", "namespace", "pod"}

\* C16: an alert joins an existing group only if it agrees with the group on
\* alertname, namespace and pod: each of the three is missing in both or carries the
\* same value in both.
C16_MergeOnlyOnSameTriple ==
    [][\A p \in IngestIds :
          (Ingests(p) /\ ingest[p].key \in DOMAIN groups) =>
              LET labels == ingest[p].labels
                  merged == groups[ingest[p].key].mergedLabels
              IN  \A l \in KeyLabels :
                      /\ (l \in DOMAIN labels) = (l \in DOMAIN merged)
                      /\ l \in DOMAIN labels => labels[l] = merged[l]]_vars

\* The error logged for the flush of the sweep's next expired group
FlushErr == flushLog'[Len(flushLog')].err

\* C24: when the creation of the task of an expired group fails, the group stays
\* out of the active map and is not flushed again, no task is stored, and the
\* sweep goes on with the other groups it collected; an ingest of a key that is
\* not in the map starts a group with count 1.
C24_FailedFlushLosesGroup ==
    /\ [][Flushes /\ FlushErr # "" =>
            LET group == Head(sweep.expired)
            IN  /\ groups' = groups
                /\ tasks' = tasks
                /\ sweep' = IF Len(sweep.expired) = 1 THEN NoSweep
                            ELSE [pc |-> "flush", expired |-> Tail(sweep.expired)]
                /\ sweep'.pc = "flush" =>
                      \A k \in 1..Len(sweep'.expired) : sweep'.expired[k].key # group.key]_vars
    /\ [][\A p \in IngestIds :
            (Ingests(p) /\ ingest[p].key \notin DOMAIN groups) =>
                /\ groups'[ingest[p].key].count = 1
                /\ groups'[ingest[p].key].firstSeen = ingest[p].now]_vars

\* C24 witness: the creation for one group has failed, the sweep still holds another
\* group to flush, and an ingest has started a new group of the failed key.
C24_SweepGoesOnAfterFailure ==
    /\ sweep.pc = "flush" /\ flushLog # <<>>
    /\ LET last == flushLog[Len(flushLog)]
       IN  /\ last.err # ""
           /\ Head(sweep.expired).key # last.key
           /\ last.key \in DOMAIN groups
           /\ groups[last.key].count = 1

\* A task of the name and namespace of t is stored
Exists(t) == \E x \in tasks : x.name = t.name /\ x.namespace = t.namespace

\* C25: Create returns no error and leaves the stored tasks as they are when the
\* store answers that a task of the generated name exists; it stores the task
\* when the store accepts it; any other error of the store is returned, wrapped,
\* and nothing is stored.
C25_CreateIdempotent ==
    /\ [](sweep.pc = "flush" =>
            LET group == Head(sweep.expired)
                t == buildTask(group, clock)
            IN  \A storeErr \in StoreErrors :
                   LET r == Create(tasks, group, clock, storeErr)
                   IN  /\ (storeErr = "" /\ Exists(t)) => (r.err = "" /\ r.tasks = tasks)
                       /\ (storeErr = "" /\ ~Exists(t)) => (r.err = "" /\ r.tasks = tasks \cup {t})
                       /\ storeErr # "" =>
                             /\ r.tasks = tasks
                             /\ r.err = "failed to create DiagnosisTask for alert group "
                                        \o group.key \o ": " \o storeErr)
    /\ [][Flushes =>
            LET group == Head(sweep.expired)
                t == buildTask(group, clock)
            IN  IF FlushErr = ""
                THEN tasks' = IF Exists(t) THEN tasks ELSE tasks \cup {t}
                ELSE /\ tasks' = tasks
                     /\ \E storeErr \in StoreErrors \ {""} :
                           FlushErr = "flush alert group " \o group.key
                                      \o ": failed to create DiagnosisTask for alert group "
                                      \o group.key \o ": " \o storeErr]_vars

\* C25 witness: two groups were flushed without an error and one task is stored: the
\* second creation was answered AlreadyExists.
C25_AlreadyExistsSwallowed ==
    /\ Len(flushLog) = 2 /\ Cardinality(tasks) = 1
    /\ flushLog[1].err = "" /\ flushLog[2].err = ""

\* The ingests counted by the groups flushed so far
RECURSIVE FlushedCount(_)
FlushedCount(n) == IF n = 0 THEN 0 ELSE FlushedCount(n - 1) + flushLog[n].count

\* C29: when the ingests stop and the sweep keeps running, the group of every key
\* is eventually removed from the map, a creation has eventually been attempted
\* for every group, so that the flushed groups count every ingest made, and the
\* map stays empty from then on.
C29_GroupsEventuallyFlushed ==
    <>[](DOMAIN groups = {} /\ FlushedCount(Len(flushLog)) = nIngests)

\* C29 witness: every ingest of the model was made, for more than one key, and the
\* map is empty again after the flushes.
C29_AllFlushed ==
    /\ nIngests = MaxIngests /\ DOMAIN groups = {}
    /\ \A p \in IngestIds : ingest[p].pc = "idle"
    /\ FlushedCount(Len(flushLog)) = nIngests
    /\ \E i, j \in 1..Len(flushLog) : flushLog[i].key # flushLog[j].key

\* C23: with an L2 store, every group a sweep has removed and flushed has produced
\* exactly one AppendAlertEvent call, made or still to be made by its goroutine,
\* carrying the group's alertName, namespace, pod, count, firstSeen and lastSeen.
C23_EventPerRemovedGroup ==
    l2Store =>
        /\ BagCardinality(l2Go) + BagCardinality(l2Log) = Len(flushLog)
        /\ \A k \in 1..Len(flushLog) :
              \E e \in BagToSet(l2Go) \cup {x.event : x \in BagToSet(l2Log)} :
                  /\ e.alertName = flushLog[k].alertName
                  /\ e.count = flushLog[k].count
                  /\ e.firstSeen = flushLog[k].firstSeen
                  /\ e.lastSeen = flushLog[k].lastSeen

\* The labels a group's own alertname, namespace and pod stand for
OwnLabels(group) ==
    [k \in {"alertname", "namespace", "pod"} |->
        IF k = "alertname" THEN group.alertName
        ELSE IF k = "namespace" THEN group.namespace ELSE group.pod]

\* Every group of the map has counted an ingest and is stored under the key of its
\* own alertname, namespace and pod
GroupsKeyed ==
    \A k \in DOMAIN groups :
        /\ groups[k].count >= 1
        /\ groups[k].key = k
        /\ buildGroupKey(OwnLabels(groups[k])) = k

\* An ingest adds one to the count of the group of its key, a new group starting
\* at one, and changes no other count
CountsIngests ==
    \A p \in IngestIds : Ingests(p) =>
        /\ DOMAIN groups' = DOMAIN groups \cup {ingest[p].key}
        /\ \A k \in DOMAIN groups' :
              groups'[k].count =
                  IF k # ingest[p].key THEN groups[k].count
                  ELSE IF k \in DOMAIN groups THEN groups[k].count + 1 ELSE 1

\* C38: in every state, whatever the interleaving of the Ingest calls and the
\* sweeps, every group of the active map has count >= 1, a count equal to the
\* number of ingests of its key since it was created, firstSeen <= lastSeen, and
\* the key built from its own alertname, namespace and pod.
C38_GroupInvariants ==
    /\ [](GroupsKeyed /\ \A k \in DOMAIN groups : groups[k].firstSeen <= groups[k].lastSeen)
    /\ [][CountsIngests]_vars

-----------------------------------------------------------------------------
(* Properties of the Router (SpecRouter) *)

\* The tools of the providers 1..n whose call of this ListTools did not fail, in
\* registration order
RECURSIVE Succeeded(_)
Succeeded(n) ==
    IF n = 0 THEN <<>>
    ELSE Succeeded(n - 1) \o (IF router.errs[n] = "" THEN router.providers[n].tools ELSE <<>>)

\* C22: ListTools returns no error and the concatenation, in registration order,
\* of the tools of exactly the providers whose call succeeded, whichever of them
\* failed; without providers it returns no tools.
C22_ListToolsToleratesFailures ==
    router.ret # NoReturn =>
        /\ router.ret.err = ""
        /\ Len(router.errs) <= Len(router.providers)
        /\ router.ret.tools = Succeeded(Len(router.errs))
        /\ Len(router.errs) = 0 => router.ret.tools = <<>>

\* C22 witness: of three providers the second failed, the tools of the first and
\* the third were returned.
C22_PartialFailure ==
    /\ router.ret # NoReturn
    /\ router.providers = <<[tools |-> <<"internal_tool">>], [tools |-> <<"tool_a", "tool_b">>],
                            [tools |-> <<"internal_tool">>]>>
    /\ router.errs = <<"", "provider unavailable", "">>
    /\ router.ret.tools = <<"internal_tool", "internal_tool">>

-----------------------------------------------------------------------------
(* Properties of the task names (SpecName) *)

\* The characters of a name segment
SegmentChars == {LowerCase[j] : j \in 1..Len(LowerCase)} \cup Digits \cup {"-"}

\* C30: the task name of any alert name is "alert-" + s + "-" + unix-milliseconds
\* with s not empty, of the characters a-z, 0-9 and "-" only, neither starting nor
\* ending with "-", and of at most 40 characters; s is "unknown" when sanitizing
\* leaves nothing; sanitizing a sanitized name returns it unchanged.
C30_TaskNameValid ==
    naming.pc \in {"built", "again"} =>
        LET s == naming.segment
        IN  /\ Len(s) >= 1 /\ Len(s) <= maxAlertSegment
            /\ \A k \in 1..Len(s) : s[k] \in SegmentChars
            /\ s[1] # "-" /\ s[Len(s)] # "-"
            /\ naming.name = "alert-" \o Join(s) \o "-" \o ToString(naming.ms)
            /\ s = IF naming.safe = <<>> THEN <<"u", "n", "k", "n", "o", "w", "n">>
                   ELSE naming.safe
            /\ naming.pc = "again" => naming.again = naming.safe

\* C30 witness: an alert name longer than the segment whose cut ended in "-": the
\* segment is shorter than the cut.
C30_CutAndTrimmed ==
    /\ naming.pc = "again"
    /\ Len(naming.alertName) > maxAlertSegment
    /\ Len(naming.segment) = 1
    /\ naming.name = "alert-a-1"

-----------------------------------------------------------------------------
(* Properties of the SkillManager (SpecMatch) *)

\* C39: for a fixed set of registered skills and a fixed task every Match call
\* returns the same skill, also when the triggers of several skills match: a skill
\* with a trigger matching the task's alert context when there is one, and the
\* base skill when the task has no alert context.
C39_MatchDeterministic ==
    /\ \A i, j \in 1..Len(skillMgr.results) : skillMgr.results[i] = skillMgr.results[j]
    /\ \A i \in 1..Len(skillMgr.results) :
          /\ Triggered(skillMgr.skills, skillMgr.context) # {} =>
                skillMgr.results[i] \in Triggered(skillMgr.skills, skillMgr.context)
          /\ skillMgr.context.nil => skillMgr.results[i] = BaseSkill.name

====
